---- MODULE Spec2Model ----
(***************************************************************************)
(* Model of the serial terminal-automation layer of the LuckFox scripts:   *)
(*   src/CSI_Camera/config.py                                              *)
(*   src/CSI_Camera/luckfox_b_serial_ops.py                                *)
(*   src/CSI_Camera/luckfox_b_camera_ops.py                                *)
(*   src/CSI_Camera/luckfox_image_capture.py                               *)
(*                                                                         *)
(* Byte strings are sequences of one-character strings.  The serial link   *)
(* is a pair of byte strings: `wire` holds what the target has still to    *)
(* send, `rx` what has arrived and waits in the input buffer of the port   *)
(* (ser.in_waiting).  Time is counted in ticks since the start of the      *)
(* current wait.                                                           *)
(***************************************************************************)
EXTENDS Integers, Sequences, FiniteSets, TLC

(***************************************************************************)
(* Bounds of the model.                                                    *)
(***************************************************************************)
\* longest byte stream the target sends during one wait of SpecWait
MaxWire == 3
\* longest initial_buffer handed to expect_prompt in SpecWait
MaxInit == 1
\* number of clock ticks that make up a prompt timeout
TimeoutTicks == 2
\* longest command output O of the target in SpecSend
MaxOut == 2

(***************************************************************************)
(* config.py                                                               *)
(***************************************************************************)
TARGET_USERNAME == <<"r","o","o","t">>
TARGET_PASSWORD == <<"l","u","c","k","f","o","x">>
LOGIN_PROMPT_STR == <<"l","o","g","i","n",":"," ">>
PASSWORD_PROMPT_STR == <<"P","a","s","s","w","o","r","d",":"," ">>
SHELL_PROMPT_STRS ==
    << <<"[","r","o","o","t","@","l","u","c","k","f","o","x"," ","~","]","#"," ">>,
       <<"[","r","o","o","t","@","l","u","c","k","f","o","x"," ","r","o","o","t","]","#"," ">>,
       <<"#"," ">> >>

(***************************************************************************)
(* Python values and bytes operations used by the scripts.                 *)
(***************************************************************************)
\* Python's None, as a value comparable with byte strings
None == <<"None">>

NL == <<"\n">>

BoundedSeq(S, n) == UNION {[1..k -> S] : k \in 0..n}

\* the elements of a list, as a set
Elems(list) == {list[i] : i \in 1..Len(list)}

\* bytes.isspace of one byte
IsSpace(c) == c \in {" ", "\t", "\n", "\r", "\f"}

\* p in s  (bytes containment)
Contains(p, s) ==
    \E i \in 0..(Len(s) - Len(p)) : SubSeq(s, i + 1, i + Len(p)) = p

\* s.endswith(p)
EndsWith(s, p) ==
    /\ Len(p) <= Len(s)
    /\ SubSeq(s, Len(s) - Len(p) + 1, Len(s)) = p

\* s.rfind(p): the highest 0-based index at which p starts in s, or -1
RFind(s, p) ==
    LET at == {i \in 0..(Len(s) - Len(p)) : SubSeq(s, i + 1, i + Len(p)) = p}
    IN  IF at = {} THEN -1 ELSE CHOOSE i \in at : \A j \in at : j <= i

\* s.strip(): leading and trailing whitespace removed
Strip(s) ==
    LET keep == {i \in 1..Len(s) : ~IsSpace(s[i])}
    IN  IF keep = {} THEN <<>>
        ELSE LET lo == CHOOSE i \in keep : \A j \in keep : i <= j
                 hi == CHOOSE i \in keep : \A j \in keep : j <= i
             IN  SubSeq(s, lo, hi)

\* the length of the first line of s, line terminator (\n, \r or \r\n) included
FirstLineLen(s) ==
    LET brk == {i \in 1..Len(s) : s[i] \in {"\n", "\r"}}
    IN  IF brk = {} THEN Len(s)
        ELSE LET i == CHOOSE k \in brk : \A j \in brk : k <= j
             IN  IF s[i] = "\r" /\ i < Len(s) /\ s[i + 1] = "\n" THEN i + 1 ELSE i

\* s.splitlines(True)
RECURSIVE SplitLines(_)
SplitLines(s) ==
    IF s = <<>> THEN <<>>
    ELSE LET e == FirstLineLen(s)
         IN  <<SubSeq(s, 1, e)>> \o SplitLines(SubSeq(s, e + 1, Len(s)))

\* b"".join(lines)
RECURSIVE Join(_)
Join(lines) ==
    IF lines = <<>> THEN <<>> ELSE Head(lines) \o Join(Tail(lines))

\* bytes.decode(errors='replace'): a byte that is no valid text becomes U+FFFD
DecodeByte(c) == IF c = "0xFF" THEN "U+FFFD" ELSE c

Decode(b) == [i \in 1..Len(b) |-> DecodeByte(b[i])]

(***************************************************************************)
(* State.                                                                  *)
(***************************************************************************)
VARIABLES
    op,          \* the function the harness of the specification exercises
    wire,        \* bytes the target has still to send
    rx,          \* bytes waiting in the port's input buffer (ser.in_waiting)
    written,     \* the byte strings written to the port so far, in order
    reply,       \* what the target sends in answer to the next command
    elapsed,     \* ticks since start_time of the current wait
    ep_pc,       \* expect_prompt: position
    ep_prompts,  \* expect_prompt: prompts_to_expect_bytes
    ep_timeout,  \* expect_prompt: timeout_duration in ticks
    ep_buf,      \* expect_prompt: received_buffer
    ep_init,     \* expect_prompt: the initial_buffer argument
    ep_ret,      \* expect_prompt: returned value
    sc_pc,       \* send_command_and_get_output: position
    sc_cmd,      \* send_command_and_get_output: command_str
    sc_prompts,  \* send_command_and_get_output: shell_prompt_strs
    sc_buf,      \* send_command_and_get_output: full_response_buffer
    sc_found,    \* send_command_and_get_output: prompt_found_details
    sc_ret,      \* send_command_and_get_output: returned value
    target_out,  \* SpecSend: the output O the target produced
    target_prompt, \* SpecSend: the prompt the target printed after O
    lg_pc,       \* login_to_target: position
    initial_response,  \* login_to_target: result of the first prompt wait(s)
    password_response, \* login_to_target: result of the wait for "Password: "
    shell_response,    \* login_to_target: result of the wait for a shell prompt
    lg_ret,      \* login_to_target: returned value
    vf_pc,       \* verify_capture_on_target: position
    raw_ls_output, \* verify_capture_on_target: what send_command... returned
    vf_ret,      \* verify_capture_on_target: returned value or exception
    events,      \* luckfox_image_capture: what the script did so far, in order
    rb_pc,       \* trigger_target_reboot: position
    ser_reboot,  \* trigger_target_reboot: the port ("none", "open", "closed")
    rb_login,    \* trigger_target_reboot: what login_to_target returned
    rb_ret,      \* trigger_target_reboot: returned value
    cap_pc,      \* run_capture_sequence_after_reboot: position
    ser_capture, \* run_capture_sequence_after_reboot: the port
    step,        \* run_capture_sequence_after_reboot: outcome of each step
    target_file_size, \* run_capture_sequence_after_reboot: size verified
    overall_success,  \* run_capture_sequence_after_reboot: overall_success
    cap_ret,     \* run_capture_sequence_after_reboot: returned value
    main_pc,     \* __main__: position
    session_logged, \* __main__: session_log_entries is not empty
    exit_status, \* __main__: status the process exited with, -1 while running
    ff_pc,       \* process_local_image_ffmpeg: position
    ff_args,     \* process_local_image_ffmpeg: its arguments
    raw_file,    \* the raw image file: whether it exists, and its bytes
    jpg_size,    \* size of the output JPG, -1 while there is none
    ffmpeg_run,  \* how the ffmpeg process ended, "none" while it never ran
    ff_ret,      \* process_local_image_ffmpeg: returned value or exception
    ip_pc,       \* get_target_ip: position
    output1,     \* get_target_ip: output of the first command
    output2,     \* get_target_ip: output of the second command
    ip_ret,      \* get_target_ip: returned value
    gpio_exported,  \* sysfs: the pins that have a /sys/class/gpio/gpioN
    gpio_value,     \* sysfs: the value file of each selector pin
    gpio_writes,    \* the <<pin, value>> written by the last select_mux_channel
    script_exported, \* the pins exported by a write of this script
    unexport_tried, \* the pins gpio_unexport wrote to the unexport file
    mux_pc,         \* select_mux_channel called on its own: position
    sel_channel,    \* select_mux_channel: channel
    sel_ret,        \* select_mux_channel: returned value
    cal_pc,         \* calibrate_background: position
    cal_ch,         \* calibrate_background: ch
    temp_readings,  \* calibrate_background: temp_readings
    successful_reads, \* calibrate_background: successful_reads
    background_voltages, \* 74HC4051array.py: the global background_voltages
    cal_ret,        \* calibrate_background: returned value
    mo_pc,          \* 74HC4051array.py __main__: position
    mo_pin,         \* __main__: index of the pin the setup loop is at
    gpios_successfully_configured, \* __main__: the flag of that name
    scan_ch,        \* __main__: ch of the scan in progress
    rp_pc,          \* status_reporter2.py __main__: position
    connection_attempts, \* status_reporter2.py: connection_attempts
    connect_calls,  \* the number of calls of mqtt_client.connect
    mq_connected,   \* what mqtt_client.is_connected() returns
    loop_running,   \* whether the network loop thread of the client runs
    wait_ticks,     \* sleeps of the wait for the connection so far
    cycles,         \* passes of the publish loop so far
    published,      \* calls of mqtt_client.publish so far
    cycle_connected, \* is_connected() at the start of the current cycle
    loop_entry,     \* is_connected() when the publish loop was entered
    rp_status,      \* exit status of the reporter, -1 while it runs
    oled_available, \* oled_status_display2.py: oled_available and oled_device
    board_statuses, \* oled_status_display2.py: the global board_statuses
    oled_now,       \* what time.time() returns, in ticks
    oled_lines,     \* the text on the display, line by line
    received,       \* the MQTT messages on_message was called with, in order
    oled_pc,        \* whether the display manager is in loop_forever
    svc_pc,         \* manage_target_services: position
    svc_action,     \* manage_target_services: action
    svc_services,   \* manage_target_services: services
    svc_idx,        \* manage_target_services: services handled so far
    all_successful, \* manage_target_services: all_successful
    svc_outputs,    \* whether each output so far was None
    svc_ret,        \* manage_target_services: returned value
    current_diffs,  \* motion loop: current_diffs of the last scan
    current_position, \* motion loop: current_position, as <<sum, weight>>
    direction,      \* motion loop: direction
    previous_position, \* motion loop: previous_position, as <<sum, weight>>
    previous_position_was_valid, \* motion loop: the flag of that name
    preceding_scan  \* the center of mass of the scan before the last one

linkVars == <<wire, rx, written, reply, elapsed>>
epVars == <<ep_pc, ep_prompts, ep_timeout, ep_buf, ep_init, ep_ret>>
scVars == <<sc_pc, sc_cmd, sc_prompts, sc_buf, sc_found, sc_ret>>
sendVars == <<target_out, target_prompt>>
ffVars == <<ff_pc, ff_args, raw_file, jpg_size, ffmpeg_run, ff_ret>>
\* the state of the functions and scripts exercised on their own
ipVars == <<ip_pc, output1, output2, ip_ret>>
gpioVars == <<gpio_exported, gpio_value, gpio_writes, script_exported,
              unexport_tried>>
selVars == <<mux_pc, sel_channel, sel_ret>>
calVars == <<cal_pc, cal_ch, temp_readings, successful_reads,
             background_voltages, cal_ret>>
motionVars == <<mo_pc, mo_pin, gpios_successfully_configured, scan_ch>>
muxVars == <<gpioVars, selVars, calVars, motionVars>>
reporterVars == <<rp_pc, connection_attempts, connect_calls, mq_connected,
                  loop_running, wait_ticks, cycles, published,
                  cycle_connected, loop_entry, rp_status>>
oledVars == <<oled_available, board_statuses, oled_now, oled_lines, received,
              oled_pc>>
svcVars == <<svc_pc, svc_action, svc_services, svc_idx, all_successful,
             svc_outputs, svc_ret>>
scanVars == <<current_diffs, current_position, direction, previous_position,
              previous_position_was_valid, preceding_scan>>
scriptVars == <<reporterVars, oledVars, svcVars, scanVars>>
otherVars == <<ffVars, ipVars, muxVars, scriptVars>>
besidesFf == <<ipVars, muxVars, scriptVars>>
besidesIp == <<ffVars, muxVars, scriptVars>>
besidesMux == <<ffVars, ipVars, scriptVars>>
besidesReporter == <<ffVars, ipVars, muxVars, oledVars, svcVars, scanVars>>
besidesOled == <<ffVars, ipVars, muxVars, reporterVars, svcVars, scanVars>>
besidesSvc == <<ffVars, ipVars, muxVars, reporterVars, oledVars, scanVars>>
besidesScan == <<ffVars, ipVars, reporterVars, oledVars, svcVars>>
loginVars == <<lg_pc, initial_response, password_response, shell_response, lg_ret>>
\* the state of the callers of expect_prompt and send_command_and_get_output
verifyVars == <<vf_pc, raw_ls_output, vf_ret>>
\* the state of the scripts above the serial operations
rebootVars == <<rb_pc, ser_reboot, rb_login, rb_ret>>
captureVars == <<cap_pc, ser_capture, step, target_file_size, overall_success,
                 cap_ret>>
mainVars == <<main_pc, session_logged, exit_status>>
flowVars == <<events, rebootVars, captureVars, mainVars>>
appVars == <<verifyVars, flowVars>>
callerVars == <<loginVars, appVars>>
vars == <<op, linkVars, epVars, scVars, sendVars, otherVars, callerVars>>
\* the serial link, the serial operations and their callers in the capture
\* script
baseVars == <<op, linkVars, epVars, scVars, sendVars, callerVars>>

NotFound == [found |-> FALSE, prompt_bytes |-> None, index |-> -1]

EpIdle ==
    /\ ep_pc = "idle"
    /\ ep_prompts = <<>>
    /\ ep_timeout = 0
    /\ ep_buf = <<>>
    /\ ep_init = <<>>
    /\ ep_ret = None

ScIdle ==
    /\ sc_pc = "idle"
    /\ sc_cmd = <<>>
    /\ sc_prompts = <<>>
    /\ sc_buf = <<>>
    /\ sc_found = NotFound
    /\ sc_ret = None

SendIdle ==
    /\ target_out = <<>>
    /\ target_prompt = <<>>

NoArgs == [none |-> TRUE]

FfIdle ==
    /\ ff_pc = "idle"
    /\ ff_args = NoArgs
    /\ raw_file = [exists |-> FALSE, bytes |-> <<>>]
    /\ jpg_size = -1
    /\ ffmpeg_run = "none"
    /\ ff_ret = "unset"

IpIdle ==
    /\ ip_pc = "idle"
    /\ output1 = None
    /\ output2 = None
    /\ ip_ret = "unset"

\* 74HC4051array.py line 7
NUM_CHANNELS == 8
\* 74HC4051array.py line 8: SELECTOR_PINS, S0, S1, S2
SELECTOR_PINS == <<64, 65, 66>>

GpioIdle ==
    /\ gpio_exported = {}
    /\ gpio_value = [p \in Elems(SELECTOR_PINS) |-> 0]
    /\ gpio_writes = <<>>
    /\ script_exported = {}
    /\ unexport_tried = {}

SelIdle ==
    /\ mux_pc = "idle"
    /\ sel_channel = 0
    /\ sel_ret = "unset"

CalIdle ==
    /\ cal_pc = "idle"
    /\ cal_ch = 0
    /\ temp_readings = <<>>
    /\ successful_reads = 0
    /\ background_voltages = <<>>
    /\ cal_ret = "unset"

MotionIdle ==
    /\ mo_pc = "idle"
    /\ mo_pin = 0
    /\ gpios_successfully_configured = FALSE
    /\ scan_ch = 0

MuxIdle ==
    /\ GpioIdle
    /\ SelIdle
    /\ CalIdle
    /\ MotionIdle

ReporterIdle ==
    /\ rp_pc = "idle"
    /\ connection_attempts = 0
    /\ connect_calls = 0
    /\ mq_connected = FALSE
    /\ loop_running = FALSE
    /\ wait_ticks = 0
    /\ cycles = 0
    /\ published = 0
    /\ cycle_connected = "unset"
    /\ loop_entry = "unset"
    /\ rp_status = -1

OledIdle ==
    /\ oled_available = FALSE
    /\ board_statuses = <<>>
    /\ oled_now = 0
    /\ oled_lines = <<>>
    /\ received = <<>>
    /\ oled_pc = "off"

SvcIdle ==
    /\ svc_pc = "idle"
    /\ svc_action = "none"
    /\ svc_services = <<>>
    /\ svc_idx = 0
    /\ all_successful = TRUE
    /\ svc_outputs = <<>>
    /\ svc_ret = "unset"

(***************************************************************************)
(* Python floats.  A float of the script is an IEEE 754 binary64 number:   *)
(* every operation gives the exact result rounded to 53 significant bits,  *)
(* ties to even.  Integers of the model have 32 bits, so a significand is  *)
(* kept as four limbs of 28 bits, least significant first.  A float is     *)
(* [s, m, e] for (-1)^s * m * 2^e, with m of exactly 53 bits, or zero.     *)
(* The exponent range of binary64 is never left by the voltages of a scan. *)
(* An operand is bound to its value (Strict1, Strict2) before it is used.  *)
(***************************************************************************)
\* Op(a) and Op(a, b) with a and b computed once
Strict1(Op(_), a) == CHOOSE r \in {Op(x) : x \in {a}} : TRUE
Strict2(Op(_, _), a, b) == CHOOSE r \in {Op(x, y) : x \in {a}, y \in {b}} : TRUE

LimbBase == 2^28
MantBits == 53

BZero == <<0, 0, 0, 0>>
BInt(n) == <<n % LimbBase, n \div LimbBase, 0, 0>>
Limb(a, j) == IF j >= 1 /\ j <= 4 THEN a[j] ELSE 0

RECURSIVE BAddFrom(_, _, _, _)
BAddFrom(a, b, i, carry) ==
    IF i > 4 THEN <<>>
    ELSE LET sum == a[i] + b[i] + carry
         IN  <<sum % LimbBase>> \o BAddFrom(a, b, i + 1, sum \div LimbBase)
BAdd(a, b) == BAddFrom(a, b, 1, 0)

\* a - b for a >= b
RECURSIVE BSubFrom(_, _, _, _)
BSubFrom(a, b, i, borrow) ==
    IF i > 4 THEN <<>>
    ELSE LET d == a[i] - b[i] - borrow
         IN  IF d < 0 THEN <<d + LimbBase>> \o BSubFrom(a, b, i + 1, 1)
             ELSE <<d>> \o BSubFrom(a, b, i + 1, 0)
BSub(a, b) == BSubFrom(a, b, 1, 0)

\* -1, 0 or 1 as a is below, equal to or above b
RECURSIVE BCmpFrom(_, _, _)
BCmpFrom(a, b, i) ==
    IF i = 0 THEN 0
    ELSE IF a[i] < b[i] THEN -1
    ELSE IF a[i] > b[i] THEN 1
    ELSE BCmpFrom(a, b, i - 1)
BCmp(a, b) == BCmpFrom(a, b, 4)

BBit(a, k) == (a[(k \div 28) + 1] \div 2^(k % 28)) % 2

RECURSIVE IntLen(_)
IntLen(n) == IF n = 0 THEN 0 ELSE 1 + IntLen(n \div 2)

\* the number of bits of a
BLen(a) ==
    IF a = BZero THEN 0
    ELSE LET top == CHOOSE i \in 1..4 :
                       a[i] # 0 /\ \A j \in (i + 1)..4 : a[j] = 0
         IN  (top - 1) * 28 + IntLen(a[top])

\* a * 2^n, and a \div 2^n
BShl(a, n) ==
    LET q == n \div 28
        s == n % 28
        keep == 2^(28 - s)
        L(i) == (Limb(a, i - q) % keep) * 2^s + Limb(a, i - q - 1) \div keep
    IN  <<L(1), L(2), L(3), L(4)>>
BShr(a, n) ==
    LET q == n \div 28
        s == n % 28
        L(i) == Limb(a, i + q) \div 2^s
                   + (Limb(a, i + q + 1) % 2^s) * 2^(28 - s)
    IN  <<L(1), L(2), L(3), L(4)>>

\* the four half limbs of a number below 2^56, least significant first
HalfBase == 2^14
Halves(a) ==
    <<a[1] % HalfBase, a[1] \div HalfBase, a[2] % HalfBase, a[2] \div HalfBase>>

\* the digits to base HalfBase of the number whose k-th digit before the
\* carries is c[k]
RECURSIVE Carried(_, _, _)
Carried(c, k, carry) ==
    IF k > Len(c) THEN <<carry % HalfBase, carry \div HalfBase>>
    ELSE Strict1(LAMBDA t : <<t % HalfBase>>
                               \o Carried(c, k + 1, t \div HalfBase),
                 c[k] + carry)

\* a * b for a and b below 2^56, by long multiplication of the half limbs
Columns(x, y) ==
    LET Term(i, k) == IF k + 1 - i >= 1 /\ k + 1 - i <= 4
                      THEN x[i] * y[k + 1 - i] ELSE 0
        Column(k) == Term(1, k) + Term(2, k) + Term(3, k) + Term(4, k)
    IN  <<Column(1), Column(2), Column(3), Column(4),
          Column(5), Column(6), Column(7)>>
Packed(d) ==
    <<d[1] + HalfBase * d[2], d[3] + HalfBase * d[4],
      d[5] + HalfBase * d[6], d[7] + HalfBase * d[8]>>
BMul(a, b) ==
    Strict1(Packed,
            Strict1(LAMBDA c : Carried(c, 1, 0),
                    Strict2(Columns, Halves(a), Halves(b))))

\* one more bit of the quotient of a division by d, until it has QuotBits
\* bits: st.q is the quotient so far, st.r the remainder, st.k the bits
\* produced after the binary point
QuotBits == MantBits + 3
DivStepOf(d, st) ==
    IF BLen(st.q) >= QuotBits THEN st
    ELSE Strict2(LAMBDA r, twice :
                    IF BCmp(r, d) < 0
                    THEN [q |-> twice, r |-> r, k |-> st.k + 1]
                    ELSE [q |-> BAdd(twice, BInt(1)), r |-> BSub(r, d),
                          k |-> st.k + 1],
                 BAdd(st.r, st.r), BAdd(st.q, st.q))
DivStep(d, st) == Strict1(LAMBDA v : DivStepOf(d, v), st)

RECURSIVE DivFrom(_, _)
DivFrom(d, st) ==
    Strict1(LAMBDA v : IF BLen(v.q) >= QuotBits THEN v
                       ELSE DivFrom(d, DivStep(d, DivStep(d, DivStep(d, v)))),
            st)

FZero == [s |-> 0, m |-> BZero, e |-> 0]

\* (-1)^s * m * 2^e rounded to 53 bits, ties to even
Rounded(s, m, e) ==
    LET len == BLen(m)
        drop == len - MantBits
    IN  IF len = 0 THEN FZero
        ELSE IF len <= MantBits
        THEN [s |-> s, m |-> BShl(m, MantBits - len), e |-> e - (MantBits - len)]
        ELSE Strict1(
               LAMBDA kept :
                 LET rest == BCmp(BSub(m, BShl(kept, drop)),
                                  BShl(BInt(1), drop - 1))
                 IN  IF rest > 0 \/ (rest = 0 /\ BBit(kept, 0) = 1)
                     THEN Strict1(
                            LAMBDA mant :
                              IF BLen(mant) > MantBits
                              THEN [s |-> s, m |-> BShr(mant, 1),
                                    e |-> e + drop + 1]
                              ELSE [s |-> s, m |-> mant, e |-> e + drop],
                            BAdd(kept, BInt(1)))
                     ELSE [s |-> s, m |-> kept, e |-> e + drop],
               BShr(m, drop))
Round(s, m, e) == Strict1(LAMBDA v : Rounded(s, v, e), m)

\* float(n) of an int n
FromInt(n) == IF n < 0 THEN Round(1, BInt(-n), 0) ELSE Round(0, BInt(n), 0)

FNeg(x) == Strict1(LAMBDA v : IF v = FZero THEN v ELSE [v EXCEPT !.s = 1 - v.s], x)
FAbs(x) == [x EXCEPT !.s = 0]

\* -1, 0 or 1 as abs(x) is below, equal to or above abs(y)
MagCmp(x, y) ==
    IF x.m = BZero \/ y.m = BZero
    THEN (IF x.m = y.m THEN 0 ELSE IF x.m = BZero THEN -1 ELSE 1)
    ELSE IF x.e < y.e THEN -1
    ELSE IF x.e > y.e THEN 1
    ELSE BCmp(x.m, y.m)

\* x < y
Less(x, y) ==
    IF x.s # y.s THEN x.s = 1
    ELSE IF x.s = 0 THEN MagCmp(x, y) < 0
    ELSE MagCmp(x, y) > 0
FLess(x, y) == Strict2(Less, x, y)

\* x + y: the operand of the lower exponent is the unit; an operand more
\* than 56 binary places below the other one cannot change the rounding
Sum(x, y) ==
    IF x.m = BZero THEN y
    ELSE IF y.m = BZero THEN x
    ELSE IF x.e - y.e > 56 THEN x
    ELSE IF y.e - x.e > 56 THEN y
    ELSE LET e == IF x.e < y.e THEN x.e ELSE y.e
         IN  Strict2(LAMBDA a, b :
                        IF x.s = y.s THEN Round(x.s, BAdd(a, b), e)
                        ELSE IF BCmp(a, b) >= 0 THEN Round(x.s, BSub(a, b), e)
                        ELSE Round(y.s, BSub(b, a), e),
                     BShl(x.m, x.e - e), BShl(y.m, y.e - e))
FAdd(x, y) == Strict2(Sum, x, y)

FSub(x, y) == FAdd(x, FNeg(y))

Product(x, y) ==
    Round(IF x.s = y.s THEN 0 ELSE 1, BMul(x.m, y.m), x.e + y.e)
FMul(x, y) == Strict2(Product, x, y)

\* x / y for y # 0: QuotBits bits of the quotient of the significands, and
\* a last bit that tells whether the division left a remainder
Quotient(x, y) ==
    IF x.m = BZero THEN FZero
    ELSE Strict1(
           LAMBDA st :
             Round(IF x.s = y.s THEN 0 ELSE 1,
                   BAdd(BAdd(st.q, st.q),
                        BInt(IF st.r = BZero THEN 0 ELSE 1)),
                   x.e - y.e - st.k - 1),
           DivFrom(y.m,
                   IF BCmp(x.m, y.m) < 0
                   THEN [q |-> BZero, r |-> x.m, k |-> 0]
                   ELSE [q |-> BInt(1), r |-> BSub(x.m, y.m), k |-> 0]))
FDiv(x, y) == Strict2(Quotient, x, y)

\* -1.0, the value of a position that is none
NoPosition == FromInt(-1)

ScanIdle ==
    /\ current_diffs = <<>>
    /\ current_position = NoPosition
    /\ direction = "---"
    /\ previous_position = NoPosition
    /\ previous_position_was_valid = FALSE
    /\ preceding_scan = NoPosition

ScriptIdle ==
    /\ ReporterIdle
    /\ OledIdle
    /\ SvcIdle
    /\ ScanIdle

OtherIdle ==
    /\ FfIdle
    /\ IpIdle
    /\ MuxIdle
    /\ ScriptIdle

\* a returned value, and an exception that leaves the function
Val(v) == [exc |-> "none", value |-> v]
Exc(name) == [exc |-> name, value |-> 0]

\* the value None of a text result, and a text result
NoText == [is_none |-> TRUE, text |-> <<>>]
Text(t) == [is_none |-> FALSE, text |-> t]

VerifyIdle ==
    /\ vf_pc = "idle"
    /\ raw_ls_output = NoText
    /\ vf_ret = Val(0)

\* the steps of run_capture_sequence_after_reboot, in the order of the code
PipelineSteps ==
    <<"connect", "login", "services", "ip", "capture", "verify", "scp", "ffmpeg">>

RebootIdle ==
    /\ rb_pc = "idle"
    /\ ser_reboot = "none"
    /\ rb_login = "unset"
    /\ rb_ret = "unset"

CaptureIdle ==
    /\ cap_pc = "idle"
    /\ ser_capture = "none"
    /\ step = [s \in Elems(PipelineSteps) |-> "unset"]
    /\ target_file_size = 0
    /\ overall_success = FALSE
    /\ cap_ret = "unset"

FlowIdle ==
    /\ events = <<>>
    /\ RebootIdle
    /\ CaptureIdle
    /\ main_pc = "idle"
    /\ session_logged = FALSE
    /\ exit_status = -1

AppIdle ==
    /\ VerifyIdle
    /\ FlowIdle

LoginIdle ==
    /\ lg_pc = "idle"
    /\ initial_response = None
    /\ password_response = None
    /\ shell_response = None
    /\ lg_ret = None

(***************************************************************************)
(* The serial link and the clock.                                          *)
(***************************************************************************)
\* the target's next k bytes arrive in the input buffer of the port
Deliver ==
    /\ wire # <<>>
    /\ \E k \in 1..Len(wire) :
          /\ rx' = rx \o SubSeq(wire, 1, k)
          /\ wire' = SubSeq(wire, k + 1, Len(wire))
    /\ UNCHANGED <<op, written, reply, elapsed, epVars, scVars, sendVars, otherVars, callerVars>>

\* the timeout of the wait in progress, in ticks
CurrentTimeout ==
    IF ep_pc = "loop" THEN ep_timeout ELSE TimeoutTicks

\* time.monotonic() advances while a wait is in progress
Tick ==
    /\ ep_pc = "loop" \/ sc_pc = "loop"
    /\ elapsed < CurrentTimeout
    /\ elapsed' = elapsed + 1
    /\ UNCHANGED <<op, wire, rx, written, reply, epVars, scVars, sendVars, otherVars, callerVars>>

(***************************************************************************)
(* luckfox_b_serial_ops.expect_prompt                                      *)
(***************************************************************************)
\* for prompt_bytes_item in prompts: if prompt_bytes_item in received_buffer
AnyPromptIn(prompts, buf) ==
    \E i \in 1..Len(prompts) : Contains(prompts[i], buf)

\* lines 41-47: take initial_buffer, start the clock, check the initial data
EpStart ==
    /\ ep_pc = "start"
    /\ elapsed' = 0
    /\ IF AnyPromptIn(ep_prompts, ep_buf)
       THEN /\ ep_pc' = "done"
            /\ ep_ret' = ep_buf
       ELSE /\ ep_pc' = "loop"
            /\ UNCHANGED ep_ret
    /\ UNCHANGED <<op, wire, rx, written, reply, ep_prompts, ep_timeout,
                   ep_buf, ep_init, scVars, sendVars, otherVars, callerVars>>

\* lines 49-62: one pass of the while loop before the timeout
EpIter ==
    /\ ep_pc = "loop"
    /\ elapsed < ep_timeout
    /\ IF rx # <<>>
       THEN \/ \* ser.read raises serial.SerialException
               /\ ep_pc' = "done"
               /\ ep_ret' = None
               /\ UNCHANGED <<rx, ep_buf>>
            \/ \* byte_chunk = ser.read(ser.in_waiting)
               /\ ep_buf' = ep_buf \o rx
               /\ rx' = <<>>
               /\ IF AnyPromptIn(ep_prompts, ep_buf \o rx)
                  THEN /\ ep_pc' = "done"
                       /\ ep_ret' = ep_buf \o rx
                  ELSE UNCHANGED <<ep_pc, ep_ret>>
       ELSE \* nothing waiting: time.sleep(0.02)
            UNCHANGED <<rx, ep_pc, ep_buf, ep_ret>>
    /\ UNCHANGED <<op, wire, written, reply, elapsed, ep_prompts, ep_timeout,
                   ep_init, scVars, sendVars, otherVars, callerVars>>

\* lines 49 and 66: the loop condition fails, return None
EpTimeout ==
    /\ ep_pc = "loop"
    /\ elapsed >= ep_timeout
    /\ ep_pc' = "done"
    /\ ep_ret' = None
    /\ UNCHANGED <<op, linkVars, ep_prompts, ep_timeout, ep_buf, ep_init,
                   scVars, sendVars, otherVars, callerVars>>

(***************************************************************************)
(* luckfox_b_serial_ops.send_command_and_get_output                        *)
(***************************************************************************)
\* lines 77-79: command_str with the newline appended, encoded
CommandBytes(command_str) ==
    IF EndsWith(command_str, NL) THEN command_str ELSE command_str \o NL

\* lines 105-108: the first prompt of the list the buffer ends with
RECURSIVE EndsWithScan(_, _)
EndsWithScan(buf, prompts) ==
    IF prompts = <<>> THEN NotFound
    ELSE IF EndsWith(buf, Head(prompts))
         THEN [found |-> TRUE, prompt_bytes |-> Head(prompts),
               index |-> Len(buf) - Len(Head(prompts))]
         ELSE EndsWithScan(buf, Tail(prompts))

\* lines 126-130: over the whole list, keep the occurrence that starts latest
RECURSIVE RFindScan(_, _, _)
RFindScan(buf, prompts, details) ==
    IF prompts = <<>> THEN details
    ELSE LET idx == RFind(buf, Head(prompts))
             next == IF idx # -1 /\ (~details.found \/ idx > details.index)
                     THEN [found |-> TRUE, prompt_bytes |-> Head(prompts),
                           index |-> idx]
                     ELSE details
         IN  RFindScan(buf, Tail(prompts), next)

\* lines 138-159: cut the prompt, drop the echoed first line, decode, strip
CleanOutput(buf, index, command_bytes) ==
    LET output_before_prompt == SubSeq(buf, 1, index)
        output_lines == SplitLines(output_before_prompt)
        command_sent_stripped == Strip(command_bytes)
        cleaned_output_bytes ==
            IF output_lines # <<>> /\ Strip(output_lines[1]) = command_sent_stripped
            THEN Join(Tail(output_lines))
            ELSE output_before_prompt
    IN  Strip(Decode(cleaned_output_bytes))

\* lines 85-97: reset the input buffer, write the command, start the clock
ScWrite ==
    /\ sc_pc = "start"
    /\ \/ \* ser.write raises: the exception leaves the function
          /\ sc_pc' = "raised"
          /\ UNCHANGED <<wire, rx, written, elapsed, sc_buf, sc_found>>
       \/ /\ rx' = <<>>
          /\ written' = Append(written, CommandBytes(sc_cmd))
          /\ wire' = wire \o reply
          /\ elapsed' = 0
          /\ sc_buf' = <<>>
          /\ sc_found' = NotFound
          /\ sc_pc' = "loop"
    /\ UNCHANGED <<op, reply, epVars, sc_cmd, sc_prompts, sc_ret, sendVars, otherVars, callerVars>>

\* lines 99-122: one pass of the while loop before the timeout
ScIter ==
    /\ sc_pc = "loop"
    /\ elapsed < TimeoutTicks
    /\ IF rx # <<>>
       THEN \/ \* ser.read raises serial.SerialException
               /\ sc_pc' = "done"
               /\ sc_ret' = None
               /\ UNCHANGED <<rx, sc_buf, sc_found>>
            \/ \* chunk = ser.read(ser.in_waiting)
               /\ sc_buf' = sc_buf \o rx
               /\ rx' = <<>>
               /\ sc_found' = EndsWithScan(sc_buf \o rx, sc_prompts)
               /\ sc_pc' = IF EndsWithScan(sc_buf \o rx, sc_prompts).found
                           THEN "process" ELSE "loop"
               /\ UNCHANGED sc_ret
       ELSE \* nothing waiting: check the buffer again, then time.sleep(0.05)
            /\ sc_found' = EndsWithScan(sc_buf, sc_prompts)
            /\ sc_pc' = IF EndsWithScan(sc_buf, sc_prompts).found
                        THEN "process" ELSE "loop"
            /\ UNCHANGED <<rx, sc_buf, sc_ret>>
    /\ UNCHANGED <<op, wire, written, reply, elapsed, epVars, sc_cmd,
                   sc_prompts, sendVars, otherVars, callerVars>>

\* the read loop with its deadline dropped (while True): never left by time
ScTimeoutNever ==
    /\ FALSE
    /\ UNCHANGED vars

\* line 99: the loop condition fails
ScTimeout ==
    /\ sc_pc = "loop"
    /\ elapsed >= TimeoutTicks
    /\ sc_pc' = "process"
    /\ UNCHANGED <<op, linkVars, epVars, sc_cmd, sc_prompts, sc_buf, sc_found,
                   sc_ret, sendVars, otherVars, callerVars>>

\* the function without its last-chance search
ScFinishNoFallback ==
    /\ sc_pc = "process"
    /\ sc_ret' = IF sc_found.found
                 THEN CleanOutput(sc_buf, sc_found.index, CommandBytes(sc_cmd))
                 ELSE None
    /\ sc_pc' = "done"
    /\ UNCHANGED <<op, linkVars, epVars, sc_cmd, sc_prompts, sc_buf, sc_found,
                   sendVars, otherVars, callerVars>>

\* lines 124-162: the last-chance search, then the cleaning of the buffer
ScFinish ==
    /\ sc_pc = "process"
    /\ LET details == IF sc_found.found THEN sc_found
                      ELSE RFindScan(sc_buf, sc_prompts, sc_found)
       IN  /\ sc_found' = details
           /\ sc_ret' = IF details.found
                        THEN CleanOutput(sc_buf, details.index, CommandBytes(sc_cmd))
                        ELSE None
    /\ sc_pc' = "done"
    /\ UNCHANGED <<op, linkVars, epVars, sc_cmd, sc_prompts, sc_buf, sendVars, otherVars, callerVars>>

(***************************************************************************)
(* SpecWait: one call of expect_prompt or of send_command_and_get_output   *)
(* against a target that sends an arbitrary short byte stream.             *)
(***************************************************************************)
WaitAlphabet == {"a", "#", " "}

WaitStreams == BoundedSeq(WaitAlphabet, MaxWire)

\* the prompt lists login_to_target hands to expect_prompt (lines 177, 202, 210)
ExpectPromptLists ==
    { <<LOGIN_PROMPT_STR>> \o SHELL_PROMPT_STRS,
      <<PASSWORD_PROMPT_STR>>,
      SHELL_PROMPT_STRS }

Commands == { <<"l","s">>, <<"l","s","\n">> }

InitWait ==
    /\ op \in {"expect_prompt", "send_command"}
    /\ OtherIdle
    /\ rx = <<>>
    /\ written = <<>>
    /\ elapsed = 0
    /\ SendIdle
    /\ LoginIdle
    /\ AppIdle
    /\ IF op = "expect_prompt"
       THEN /\ wire \in WaitStreams
            /\ reply = <<>>
            /\ ep_pc = "start"
            /\ ep_prompts \in ExpectPromptLists
            /\ ep_timeout = TimeoutTicks
            \* bytes read before the call: the start of a prompt, or the whole of one
            /\ ep_init \in BoundedSeq({"#", " "}, MaxInit)
            /\ ep_buf = ep_init
            /\ ep_ret = None
            /\ ScIdle
       ELSE /\ wire = <<>>
            /\ reply \in WaitStreams
            /\ EpIdle
            /\ sc_pc = "start"
            /\ sc_cmd \in Commands
            /\ sc_prompts = SHELL_PROMPT_STRS
            /\ sc_buf = <<>>
            /\ sc_found = NotFound
            /\ sc_ret = None

NextWait ==
    \/ Deliver
    \/ Tick
    \/ EpStart
    \/ EpIter
    \/ EpTimeout
    \/ ScWrite
    \/ ScIter
    \/ ScTimeout
    \/ ScFinish

SpecWait == InitWait /\ [][NextWait]_vars

\* the script keeps running and the clock keeps ticking
FairWait ==
    /\ SpecWait
    /\ WF_vars(Tick)
    /\ WF_vars(EpStart) /\ WF_vars(EpIter) /\ WF_vars(EpTimeout)
    /\ WF_vars(ScWrite) /\ WF_vars(ScIter) /\ WF_vars(ScTimeout)
    /\ WF_vars(ScFinish)

(***************************************************************************)
(* Claims settled under SpecWait / FairWait.                               *)
(***************************************************************************)
\* everything the target sent or will send during the call of expect_prompt,
\* after the initial buffer
EpStream == ep_buf \o rx \o wire

\* everything the target sent or will send in answer to the command
ScStream == sc_buf \o rx \o wire

\* C2: expect_prompt returns a buffer exactly when one of the expected prompts
\* occurs in initial_buffer followed by the bytes it received, and the buffer
\* it returns ends with that prompt: no byte after the prompt is included.
C2_BufferEndsWithPrompt ==
    ep_pc = "done" =>
        /\ (ep_ret # None) <=> AnyPromptIn(ep_prompts, ep_buf)
        /\ ep_ret # None =>
              /\ ep_ret = ep_buf
              /\ \E i \in 1..Len(ep_prompts) : EndsWith(ep_ret, ep_prompts[i])

\* C3: every prompt wait terminates: the loop of expect_prompt and the read
\* loop of send_command_and_get_output are each left once the timeout has
\* elapsed, and when the target sent none of the expected prompts the
\* function returns None.
C3_PromptWaitsTerminate ==
    /\ (ep_pc = "loop") ~> (ep_pc = "done")
    /\ (sc_pc = "loop") ~> (sc_pc = "done")
    /\ [](ep_pc = "done" /\ ~AnyPromptIn(ep_prompts, EpStream) => ep_ret = None)
    /\ [](sc_pc = "done" /\ ~AnyPromptIn(sc_prompts, ScStream) => sc_ret = None)
    /\ [][/\ (ep_pc = "loop" /\ elapsed >= ep_timeout => ep_buf' = ep_buf)
          /\ (sc_pc = "loop" /\ elapsed >= TimeoutTicks => sc_buf' = sc_buf)]_vars

\* C3 witness: the read loop of send_command_and_get_output ran into its
\* timeout while the target sent bytes without a prompt, and None came back.
C3_Witness ==
    /\ sc_pc = "done"
    /\ sc_ret = None
    /\ elapsed >= TimeoutTicks
    /\ sc_buf # <<>>
    /\ ~AnyPromptIn(sc_prompts, ScStream)

(***************************************************************************)
(* SpecSend: one call of send_command_and_get_output against a target that *)
(* echoes the command, prints an output O and then one of the prompts.     *)
(***************************************************************************)
OutAlphabet == {"a", "#", " ", "\n"}

\* every order of a list of three prompts
ListOrders(list) ==
    { [i \in 1..Len(list) |-> list[f[i]]] :
        f \in {g \in [1..Len(list) -> 1..Len(list)] :
                 \A i, j \in 1..Len(list) : g[i] = g[j] => i = j} }

\* the terminal of the target echoes the command line (lines 140-141)
TargetEcho(command_str) == Strip(CommandBytes(command_str)) \o <<"\r", "\n">>

InitSend ==
    /\ op = "send_command"
    /\ OtherIdle
    /\ wire = <<>>
    /\ rx = <<>>
    /\ written = <<>>
    /\ elapsed = 0
    /\ EpIdle
    /\ LoginIdle
    /\ AppIdle
    /\ sc_pc = "start"
    /\ sc_cmd = <<"l", "s">>
    /\ sc_prompts \in ListOrders(SHELL_PROMPT_STRS)
    /\ sc_buf = <<>>
    /\ sc_found = NotFound
    /\ sc_ret = None
    /\ target_out \in BoundedSeq(OutAlphabet, MaxOut)
    /\ target_prompt \in Elems(sc_prompts)
    /\ reply = TargetEcho(sc_cmd) \o target_out \o target_prompt

NextSend ==
    \/ Deliver
    \/ Tick
    \/ ScWrite
    \/ ScIter
    \/ ScTimeout
    \/ ScFinish

SpecSend == InitSend /\ [][NextSend]_vars

\* C1: when the target echoes the command, emits O and then a prompt of
\* shell_prompt_strs, the string send_command_and_get_output returns is exactly
\* O with the surrounding whitespace stripped, whatever the order of the
\* prompt list and however the bytes are split into read chunks.
C1_ReturnsExactlyTheOutput ==
    sc_pc = "done" /\ elapsed < TimeoutTicks /\ sc_ret # None =>
        sc_ret = Strip(Decode(target_out))

(***************************************************************************)
(* luckfox_b_serial_ops.login_to_target                                    *)
(***************************************************************************)
\* what the target may send in answer to one line written during the login
LoginReplies ==
    { <<>>, <<"a">>, LOGIN_PROMPT_STR, PASSWORD_PROMPT_STR, <<"#", " ">> }

\* line 177: initial_prompts_bytes
InitialPrompts == <<LOGIN_PROMPT_STR>> \o SHELL_PROMPT_STRS

\* login_timeout_s / 2 (lines 178 and 184), in ticks
HalfTimeout == (TimeoutTicks + 1) \div 2

\* ser.write(line); ser.flush(): the line is on the wire, the target answers
SerWrite(line) ==
    /\ written' = Append(written, line)
    /\ \E r \in LoginReplies : wire' = wire \o r

\* the call expect_prompt(ser, prompts, timeout)
CallExpect(prompts, timeout) ==
    /\ ep_pc' = "start"
    /\ ep_prompts' = prompts
    /\ ep_timeout' = timeout
    /\ ep_init' = <<>>
    /\ ep_buf' = <<>>
    /\ ep_ret' = None

\* return value of login_to_target
LgReturn(value) ==
    /\ lg_ret' = value
    /\ lg_pc' = "done"

\* lines 221-223: a serial operation raised, the except clause returns False
LgRaised ==
    /\ LgReturn(FALSE)
    /\ UNCHANGED <<wire, rx, written, epVars>>

\* lines 190-219: what login_to_target does with a non-None initial response
LgDispatch(response) ==
    IF \E i \in 1..Len(SHELL_PROMPT_STRS) : Contains(SHELL_PROMPT_STRS[i], response)
    THEN \* already logged in
         /\ LgReturn(TRUE)
         /\ UNCHANGED <<wire, rx, written, epVars>>
    ELSE IF Contains(LOGIN_PROMPT_STR, response)
         THEN \/ /\ SerWrite(TARGET_USERNAME \o NL)
                 /\ CallExpect(<<PASSWORD_PROMPT_STR>>, TimeoutTicks)
                 /\ lg_pc' = "wait_password"
                 /\ UNCHANGED <<rx, lg_ret>>
              \/ LgRaised
         ELSE \* neither login nor shell prompt identified
              /\ LgReturn(FALSE)
              /\ UNCHANGED <<wire, rx, written, epVars>>

\* lines 170-178: wake the console with a newline, wait for a first prompt
LgWake ==
    /\ lg_pc = "start"
    /\ \/ /\ rx' = <<>>
          /\ SerWrite(NL)
          /\ CallExpect(InitialPrompts, HalfTimeout)
          /\ lg_pc' = "wait_initial"
          /\ UNCHANGED lg_ret
       \/ LgRaised
    /\ UNCHANGED <<op, reply, elapsed, initial_response, password_response,
                   shell_response, scVars, sendVars, otherVars, appVars>>

\* lines 178-184 and 190-219: first wait over; one more newline if it gave None
LgInitial ==
    /\ lg_pc = "wait_initial"
    /\ ep_pc = "done"
    /\ initial_response' = ep_ret
    /\ IF ep_ret = None
       THEN \/ /\ SerWrite(NL)
               /\ CallExpect(InitialPrompts, HalfTimeout)
               /\ lg_pc' = "wait_retry"
               /\ UNCHANGED <<rx, lg_ret>>
            \/ LgRaised
       ELSE LgDispatch(ep_ret)
    /\ UNCHANGED <<op, reply, elapsed, password_response, shell_response,
                   scVars, sendVars, otherVars, appVars>>

\* the second wait over, with one more newline and one more wait on None
LgRetryAgain ==
    /\ lg_pc = "wait_retry"
    /\ ep_pc = "done"
    /\ initial_response' = ep_ret
    /\ IF ep_ret = None
       THEN /\ SerWrite(NL)
            /\ CallExpect(InitialPrompts, HalfTimeout)
            /\ UNCHANGED <<rx, lg_pc, lg_ret>>
       ELSE LgDispatch(ep_ret)
    /\ UNCHANGED <<op, reply, elapsed, password_response, shell_response,
                   scVars, sendVars, otherVars, appVars>>

\* lines 184-219: second wait over; give up if it gave None as well
LgRetry ==
    /\ lg_pc = "wait_retry"
    /\ ep_pc = "done"
    /\ initial_response' = ep_ret
    /\ IF ep_ret = None
       THEN /\ LgReturn(FALSE)
            /\ UNCHANGED <<wire, rx, written, epVars>>
       ELSE LgDispatch(ep_ret)
    /\ UNCHANGED <<op, reply, elapsed, password_response, shell_response,
                   scVars, sendVars, otherVars, appVars>>

\* the password step with the test of password_response left out
LgPasswordUnchecked ==
    /\ lg_pc = "wait_password"
    /\ ep_pc = "done"
    /\ password_response' = ep_ret
    /\ SerWrite(TARGET_PASSWORD \o NL)
    /\ CallExpect(SHELL_PROMPT_STRS, TimeoutTicks)
    /\ lg_pc' = "wait_shell"
    /\ UNCHANGED <<op, rx, reply, elapsed, initial_response, shell_response,
                   lg_ret, scVars, sendVars, otherVars, appVars>>

\* lines 202-210: wait for "Password: " over; send the password
LgPassword ==
    /\ lg_pc = "wait_password"
    /\ ep_pc = "done"
    /\ password_response' = ep_ret
    /\ IF ep_ret = None
       THEN /\ LgReturn(FALSE)
            /\ UNCHANGED <<wire, rx, written, epVars>>
       ELSE \/ /\ SerWrite(TARGET_PASSWORD \o NL)
               /\ CallExpect(SHELL_PROMPT_STRS, TimeoutTicks)
               /\ lg_pc' = "wait_shell"
               /\ UNCHANGED <<rx, lg_ret>>
            \/ LgRaised
    /\ UNCHANGED <<op, reply, elapsed, initial_response, shell_response,
                   scVars, sendVars, otherVars, appVars>>

\* lines 210-215: wait for the shell prompt over
LgShell ==
    /\ lg_pc = "wait_shell"
    /\ ep_pc = "done"
    /\ shell_response' = ep_ret
    /\ LgReturn(ep_ret # None)
    /\ UNCHANGED <<op, linkVars, epVars, initial_response, password_response,
                   scVars, sendVars, otherVars, appVars>>

(***************************************************************************)
(* SpecLogin: one call of login_to_target.                                 *)
(***************************************************************************)
InitLogin ==
    /\ op = "login"
    /\ OtherIdle
    /\ wire = <<>>
    /\ rx = <<>>
    /\ written = <<>>
    /\ reply = <<>>
    /\ elapsed = 0
    /\ EpIdle
    /\ ScIdle
    /\ SendIdle
    /\ AppIdle
    /\ lg_pc = "start"
    /\ initial_response = None
    /\ password_response = None
    /\ shell_response = None
    /\ lg_ret = None

NextLogin ==
    \/ Deliver
    \/ Tick
    \/ EpStart
    \/ EpIter
    \/ EpTimeout
    \/ LgWake
    \/ LgInitial
    \/ LgRetry
    \/ LgPassword
    \/ LgShell

SpecLogin == InitLogin /\ [][NextLogin]_vars

\* the positions in the log of writes at which `line` was written
WrittenAt(line) == {i \in 1..Len(written) : written[i] = line}

UsernameLine == TARGET_USERNAME \o NL
PasswordLine == TARGET_PASSWORD \o NL

ShellPromptIn(response) ==
    /\ response # None
    /\ \E i \in 1..Len(SHELL_PROMPT_STRS) : Contains(SHELL_PROMPT_STRS[i], response)

\* C4: login_to_target follows the login sequence in order: the username is
\* written only after the login prompt was detected, the password only after
\* the username and after the password prompt was detected, and True is
\* returned only after a shell prompt was detected, either in the initial
\* response (then neither username nor password is written) or after the
\* password was sent; in every other case the function returns False.
C4_LoginSequenceInOrder ==
    /\ WrittenAt(UsernameLine) # {} =>
          /\ initial_response # None
          /\ Contains(LOGIN_PROMPT_STR, initial_response)
    /\ WrittenAt(PasswordLine) # {} =>
          /\ password_response # None
          /\ Contains(PASSWORD_PROMPT_STR, password_response)
          /\ \A j \in WrittenAt(PasswordLine) :
                \E i \in WrittenAt(UsernameLine) : i < j
    /\ lg_pc = "done" =>
          /\ lg_ret \in BOOLEAN
          /\ lg_ret = TRUE <=>
                \/ /\ ShellPromptIn(initial_response)
                   /\ WrittenAt(UsernameLine) = {}
                   /\ WrittenAt(PasswordLine) = {}
                \/ /\ WrittenAt(PasswordLine) # {}
                   /\ ShellPromptIn(shell_response)

\* C4 witness: a full login: login prompt, username, password prompt,
\* password, shell prompt, True returned.
C4_Witness ==
    /\ lg_pc = "done"
    /\ lg_ret = TRUE
    /\ WrittenAt(UsernameLine) # {}
    /\ WrittenAt(PasswordLine) # {}
    /\ ShellPromptIn(shell_response)

\* what every state of a login satisfies
LoginBounded ==
    /\ Cardinality(WrittenAt(NL)) <= 2
    /\ lg_pc \in {"start", "wait_initial", "wait_retry", "wait_password",
                  "wait_shell", "done"}
    /\ lg_pc = "done" => lg_ret \in BOOLEAN
    /\ lg_pc = "wait_retry" => Cardinality(WrittenAt(NL)) = 2
    /\ (WrittenAt(UsernameLine) # {} \/ WrittenAt(PasswordLine) # {}) =>
          /\ initial_response # None
          /\ Contains(LOGIN_PROMPT_STR, initial_response)
          /\ WrittenAt(UsernameLine) # {}

\* what every step of a login satisfies
RetryStep ==
    /\ (lg_pc = "wait_initial" /\ lg_pc' # "wait_initial" /\ ep_ret = None) =>
          \/ /\ written' = Append(written, NL)
             /\ ep_pc' = "start"
             /\ lg_pc' = "wait_retry"
          \/ /\ written' = written
             /\ lg_pc' = "done"
             /\ lg_ret' = FALSE
    /\ (Cardinality(WrittenAt(NL)') = 2 /\ Cardinality(WrittenAt(NL)) = 1) =>
          /\ lg_pc = "wait_initial"
          /\ ep_pc = "done"
          /\ ep_ret = None
    /\ (lg_pc = "wait_retry" /\ lg_pc' # "wait_retry") =>
          IF ep_ret = None
          THEN /\ written' = written
               /\ lg_pc' = "done"
               /\ lg_ret' = FALSE
          ELSE initial_response' = ep_ret

\* C21: login_to_target wakes the console with one newline; only when the
\* wait after it detected neither a login prompt nor a shell prompt does it
\* write one more newline and wait once more, and when that wait detects
\* nothing either it returns False; no third newline is ever written, no
\* credentials are written without a login prompt detected in the initial
\* response, and the function ends by returning True or False, also when a
\* serial write raises.
C21_WakeUpRetriedAtMostOnce == []LoginBounded /\ [][RetryStep]_vars

\* C21 witness: two newlines were written, both waits detected nothing,
\* and False was returned without any credentials written.
C21_Witness ==
    /\ lg_pc = "done"
    /\ lg_ret = FALSE
    /\ Cardinality(WrittenAt(NL)) = 2
    /\ Len(written) = 2
    /\ initial_response = None

(***************************************************************************)
(* luckfox_b_camera_ops.verify_capture_on_target                           *)
(*                                                                         *)
(* The text that came back for `ls -l` is a sequence of fields separated   *)
(* by single blanks; a field is a sequence of symbols, a symbol being a    *)
(* character, a word of an error message, the target path or one ANSI      *)
(* colour sequence.  An empty field stands for two adjacent blanks.        *)
(***************************************************************************)
\* config.py: TARGET_IMAGE_PATH
TARGET_IMAGE_PATH == <<"/tmp/csi_capture.yuv">>

\* one sequence matched by the pattern \x1b\[[0-9;]*m (line 85)
ESC == "ESC[0m"

Digits == <<"0", "1", "2", "3", "4", "5", "6", "7", "8", "9">>

IsDigit(c) == \E d \in 1..Len(Digits) : Digits[d] = c

DigitValue(c) == (CHOOSE d \in 1..Len(Digits) : Digits[d] = c) - 1

RECURSIVE DigitsValue(_)
DigitsValue(ds) ==
    IF ds = <<>> THEN 0
    ELSE 10 * DigitsValue(SubSeq(ds, 1, Len(ds) - 1)) + DigitValue(ds[Len(ds)])

\* int(field) for the fields tried here: an optional sign and at least one
\* digit, else ValueError
PyInt(field) ==
    LET signed == field # <<>> /\ field[1] \in {"+", "-"}
        ds == IF signed THEN Tail(field) ELSE field
    IN  IF ds # <<>> /\ \A i \in 1..Len(ds) : IsDigit(ds[i])
        THEN Val(IF signed /\ field[1] = "-" THEN 0 - DigitsValue(ds)
                 ELSE DigitsValue(ds))
        ELSE Exc("ValueError")

\* int(parts[i]) for a 0-based i: IndexError when the list is too short
PyIntAt(parts, i) ==
    IF i < Len(parts) THEN PyInt(parts[i + 1]) ELSE Exc("IndexError")

\* lines 85-86: ansi_escape_pattern.sub('', raw_ls_output), field by field
CleanAnsi(text) ==
    [k \in 1..Len(text) |-> SelectSeq(text[k], LAMBDA c : c # ESC)]

\* phrase in text, the phrase being words separated by single blanks
ContainsPhrase(phrase, text) ==
    LET n == Len(phrase)
    IN  \E k \in 1..(Len(text) - n + 1) :
           IF n = 1 THEN Contains(phrase[1], text[k])
           ELSE /\ EndsWith(text[k], phrase[1])
                /\ \A m \in 2..(n - 1) : text[k + m - 1] = phrase[m]
                /\ Len(phrase[n]) <= Len(text[k + n - 1])
                /\ SubSeq(text[k + n - 1], 1, Len(phrase[n])) = phrase[n]

NoSuchFile == << <<"No">>, <<"such">>, <<"file">>, <<"or">>, <<"directory">> >>
CannotAccess == << <<"cannot">>, <<"access">> >>

\* text.split(): the non-empty fields
Split(text) == SelectSeq(text, LAMBDA f : f # <<>>)

\* lines 107-117: the size when the path is the last field
SizeOfLastField(parts) ==
    LET file_size == PyIntAt(parts, 4)
    IN  IF file_size.exc \in {"ValueError", "IndexError"} THEN Val(0)
        ELSE IF file_size.exc # "none" THEN file_size
        ELSE IF file_size.value > 0 THEN file_size ELSE Val(0)

\* lines 122-130: the fallback when the path is a field but not the last one
SizeOfInnerField(parts) ==
    IF (\E k \in 1..Len(parts) : parts[k] = TARGET_IMAGE_PATH) /\ Len(parts) > 8
    THEN LET file_size == PyIntAt(parts, 4)
         IN  IF file_size.exc \in {"ValueError", "IndexError"} THEN Val(0)
             ELSE IF file_size.exc # "none" THEN file_size
             ELSE IF file_size.value > 0 THEN file_size ELSE Val(0)
    ELSE Val(0)

\* the size taken from the fifth field whatever its sign
VerifyResultUnsigned(output) ==
    IF output.is_none THEN Val(0)
    ELSE LET parts == Split(CleanAnsi(output.text))
         IN  IF Len(parts) >= 5 /\ parts[Len(parts)] = TARGET_IMAGE_PATH
             THEN LET file_size == PyIntAt(parts, 4)
                  IN  IF file_size.exc # "none" THEN Val(0) ELSE file_size
             ELSE Val(0)

\* lines 78-133: the value verify_capture_on_target computes from the output
VerifyResult(output) ==
    IF output.is_none THEN Val(0)
    ELSE LET cleaned_ls_output == CleanAnsi(output.text)
             parts == Split(cleaned_ls_output)
         IN  IF \/ ContainsPhrase(NoSuchFile, cleaned_ls_output)
                \/ ContainsPhrase(CannotAccess, cleaned_ls_output)
             THEN Val(0)
             ELSE IF parts = <<>> THEN Val(0)
             ELSE IF Len(parts) >= 5
                  THEN IF parts[Len(parts)] = TARGET_IMAGE_PATH
                       THEN SizeOfLastField(parts)
                       ELSE SizeOfInnerField(parts)
                  ELSE Val(0)

\* lines 73-76: the ls command goes out; its output, or None, comes back,
\* unless the serial write raises
VfSend ==
    /\ vf_pc = "start"
    /\ \/ /\ vf_pc' = "parse"
          /\ UNCHANGED vf_ret
       \/ /\ vf_pc' = "raised"
          /\ vf_ret' = Exc("SerialException")
    /\ UNCHANGED <<op, linkVars, epVars, scVars, sendVars, otherVars, loginVars,
                   raw_ls_output, flowVars>>

\* lines 78-133
VfParse ==
    /\ vf_pc = "parse"
    /\ vf_ret' = VerifyResult(raw_ls_output)
    /\ vf_pc' = IF VerifyResult(raw_ls_output).exc = "none" THEN "done" ELSE "raised"
    /\ UNCHANGED <<op, linkVars, epVars, scVars, sendVars, otherVars, loginVars,
                   raw_ls_output, flowVars>>

(***************************************************************************)
(* SpecVerify: one call of verify_capture_on_target for every ls response. *)
(***************************************************************************)
\* longest run of arbitrary fields tried as a response
MaxShort == 4
\* most date fields between the size and the name of a listing line
MaxDate == 3

X == <<"x">>

SizeFields ==
    { <<"4", "8">>, <<"0">>, <<"-", "4">>, <<"+", "4">>, <<"4", "x">>,
      <<ESC, "4", ESC>>, X }

ShortFields == { X, TARGET_IMAGE_PATH, <<"4", "8">>, <<ESC>> }

Tails == { <<>>, <<TARGET_IMAGE_PATH>>, <<TARGET_IMAGE_PATH, X>>, <<X>>,
           <<X \o TARGET_IMAGE_PATH>> }

Trailers == { <<>>, NoSuchFile, CannotAccess, << <<"No">>, <<>>, <<"such">> >>,
              << <<ESC>> >> }

ListingLines ==
    { <<X, X, X, X, size>> \o [k \in 1..nd |-> X] \o tail \o trailer :
        size \in SizeFields, nd \in 0..MaxDate, tail \in Tails,
        trailer \in Trailers }

LsResponses ==
    {NoText}
    \cup {Text(t) : t \in BoundedSeq(ShortFields, MaxShort)}
    \cup {Text(t) : t \in ListingLines}
    \cup {Text(<< <<"ls:">>, TARGET_IMAGE_PATH \o <<":">> >> \o NoSuchFile)}

InitVerify ==
    /\ op = "verify"
    /\ OtherIdle
    /\ wire = <<>>
    /\ rx = <<>>
    /\ written = <<>>
    /\ reply = <<>>
    /\ elapsed = 0
    /\ EpIdle
    /\ ScIdle
    /\ SendIdle
    /\ LoginIdle
    /\ FlowIdle
    /\ vf_pc = "start"
    /\ raw_ls_output \in LsResponses
    /\ vf_ret = Val(0)

NextVerify ==
    \/ VfSend
    \/ VfParse

SpecVerify == InitVerify /\ [][NextVerify]_vars

\* the fields of the response, as verify_capture_on_target sees them
LsParts == Split(CleanAnsi(raw_ls_output.text))

\* C10: for every ls response (None after a timeout, an error message, empty
\* output, too few fields, a non-numeric size, a size of 0) the parsing of
\* verify_capture_on_target raises nothing and yields a non-negative integer,
\* and it yields a positive one only when the fifth field parses as a positive
\* integer and the target path is among the fields.
C10_VerifyReturnsSizeOrZero ==
    /\ vf_pc = "raised" => vf_ret = Exc("SerialException")
    /\ vf_pc = "done" =>
          /\ vf_ret.exc = "none"
          /\ vf_ret.value \in Nat
          /\ vf_ret.value > 0 =>
                /\ ~raw_ls_output.is_none
                /\ Len(LsParts) >= 5
                /\ PyInt(LsParts[5]) = Val(vf_ret.value)
                /\ \E k \in 1..Len(LsParts) : LsParts[k] = TARGET_IMAGE_PATH

\* C10 witness: a listing whose path is not the last field and whose size is
\* positive was parsed, and the size came back.
C10_Witness ==
    /\ vf_pc = "done"
    /\ vf_ret.value > 0
    /\ LsParts[Len(LsParts)] # TARGET_IMAGE_PATH

(***************************************************************************)
(* luckfox_image_capture.py: trigger_target_reboot,                        *)
(* run_capture_sequence_after_reboot and the main block.                   *)
(*                                                                         *)
(* The functions that the pipeline steps call are taken by their outcomes:  *)
(* a value they can return or, for those that let an exception of the      *)
(* serial port escape, "raise".  The two commands of the finally clause,   *)
(* rm and exit, go through send_command_and_get_output byte by byte.       *)
(***************************************************************************)
\* everything below the capture script
belowFlow == <<op, linkVars, epVars, scVars, sendVars, otherVars, loginVars, verifyVars>>

\* outcomes of a function built on send_command_and_get_output without a
\* try of its own: a prompt came back, None came back, the serial write raised
CommandOutcomes == {"ok", "fail", "raise"}

\* ls responses of the target during the capture sequence
CaptureLsResponses ==
    { NoText,
      Text(<<X, X, X, X, <<"4", "8">>, X, X, X, TARGET_IMAGE_PATH>>),
      Text(<<X, X, X, X, <<"0">>, X, X, X, TARGET_IMAGE_PATH>>),
      Text(<< <<"ls:">>, TARGET_IMAGE_PATH \o <<":">> >> \o NoSuchFile) }

Log(e) == events' = Append(events, e)

\* a returned True or False; "unset" stands for no value returned so far
PyBool(b) == IF b THEN "True" ELSE "False"

(*------------------------ trigger_target_reboot ------------------------*)
\* lines 52-55: connect_serial
RbConnect ==
    /\ rb_pc = "connect"
    /\ \/ /\ ser_reboot' = "open"
          /\ Log("reboot:open")
          /\ rb_pc' = "login"
          /\ UNCHANGED rb_ret
       \/ \* connect_serial returned None: return False, finally closes nothing
          /\ ser_reboot' = "none"
          /\ rb_ret' = "False"
          /\ rb_pc' = "finally"
          /\ UNCHANGED events
    /\ UNCHANGED <<belowFlow, rb_login, captureVars, mainVars>>

\* the login step that goes on to the reboot command whatever login returned
RbLoginUngated ==
    /\ rb_pc = "login"
    /\ \E ok \in BOOLEAN :
          /\ rb_login' = PyBool(ok)
          /\ Log("reboot:login")
          /\ rb_pc' = "reboot"
          /\ UNCHANGED rb_ret
    /\ UNCHANGED <<belowFlow, ser_reboot, captureVars, mainVars>>

\* lines 57-63: login_to_target returns True or False
RbLogin ==
    /\ rb_pc = "login"
    /\ \E ok \in BOOLEAN :
          /\ rb_login' = PyBool(ok)
          /\ Log("reboot:login")
          /\ IF ok
             THEN /\ rb_pc' = "reboot"
                  /\ UNCHANGED rb_ret
             ELSE /\ rb_ret' = "False"
                  /\ rb_pc' = "finally"
    /\ UNCHANGED <<belowFlow, ser_reboot, captureVars, mainVars>>

\* lines 65-74: write b'reboot\n' and flush; an exception gives False
RbReboot ==
    /\ rb_pc = "reboot"
    /\ \/ /\ Log("reboot:write reboot")
          /\ rb_ret' = "True"
       \/ \* ser_reboot.write raised
          /\ rb_ret' = "False"
          /\ UNCHANGED events
       \/ \* ser_reboot.flush raised after the write
          /\ Log("reboot:write reboot")
          /\ rb_ret' = "False"
    /\ rb_pc' = "finally"
    /\ UNCHANGED <<belowFlow, ser_reboot, rb_login, captureVars, mainVars>>

\* lines 75-77: finally: close_serial when the port was opened
RbFinally ==
    /\ rb_pc = "finally"
    /\ IF ser_reboot = "open"
       THEN /\ ser_reboot' = "closed"
            /\ Log("reboot:close")
       ELSE UNCHANGED <<ser_reboot, events>>
    /\ rb_pc' = "done"
    /\ UNCHANGED <<belowFlow, rb_login, rb_ret, captureVars, mainVars>>

(*------------------- run_capture_sequence_after_reboot -----------------*)
Outcome(s, o) == step' = [step EXCEPT ![s] = o]

\* lines 166-168: the except clause, then the finally clause
CapFailed ==
    /\ overall_success' = FALSE
    /\ cap_pc' = "finally"

\* lines 97-100: connect_serial
CapConnect ==
    /\ cap_pc = "connect"
    /\ \/ /\ ser_capture' = "open"
          /\ Outcome("connect", "ok")
          /\ Log("open")
          /\ cap_pc' = "login"
       \/ /\ ser_capture' = "none"
          /\ Outcome("connect", "fail")
          /\ cap_pc' = "finally"
          /\ UNCHANGED events
    /\ UNCHANGED <<belowFlow, rebootVars, target_file_size, overall_success,
                   cap_ret, mainVars>>

\* lines 104-109: login_to_target
CapLogin ==
    /\ cap_pc = "login"
    /\ Log("login")
    /\ \E ok \in BOOLEAN :
          /\ Outcome("login", IF ok THEN "ok" ELSE "fail")
          /\ cap_pc' = IF ok THEN "services" ELSE "finally"
    /\ UNCHANGED <<belowFlow, rebootVars, ser_capture, target_file_size,
                   overall_success, cap_ret, mainVars>>

\* lines 113-117: manage_target_services; its failure is only a warning
CapServices ==
    /\ cap_pc = "services"
    /\ Log("services")
    /\ \E o \in CommandOutcomes :
          /\ Outcome("services", o)
          /\ IF o = "raise" THEN CapFailed
             ELSE /\ cap_pc' = "ip"
                  /\ UNCHANGED overall_success
    /\ UNCHANGED <<belowFlow, rebootVars, ser_capture, target_file_size,
                   cap_ret, mainVars>>

\* lines 121-126: get_target_ip
CapGetIp ==
    /\ cap_pc = "ip"
    /\ Log("ip")
    /\ \E o \in CommandOutcomes :
          /\ Outcome("ip", o)
          /\ IF o = "raise" THEN CapFailed
             ELSE /\ cap_pc' = IF o = "ok" THEN "capture" ELSE "finally"
                  /\ UNCHANGED overall_success
    /\ UNCHANGED <<belowFlow, rebootVars, ser_capture, target_file_size,
                   cap_ret, mainVars>>

\* lines 130-135: configure_and_capture_image; False raises an Exception
CapCapture ==
    /\ cap_pc = "capture"
    /\ Log("capture")
    /\ \E o \in CommandOutcomes :
          /\ Outcome("capture", o)
          /\ IF o = "ok"
             THEN /\ cap_pc' = "verify"
                  /\ UNCHANGED overall_success
             ELSE CapFailed
    /\ UNCHANGED <<belowFlow, rebootVars, ser_capture, target_file_size,
                   cap_ret, mainVars>>

\* the verification step that goes on to the transfer whatever the size
CapVerifyUngated ==
    /\ cap_pc = "verify"
    /\ Log("verify")
    /\ \E raw \in CaptureLsResponses :
          /\ target_file_size' = VerifyResult(raw).value
          /\ Outcome("verify", IF VerifyResult(raw).value > 0 THEN "ok" ELSE "fail")
          /\ cap_pc' = "scp"
    /\ UNCHANGED <<belowFlow, rebootVars, ser_capture, overall_success,
                   cap_ret, mainVars>>

\* lines 138-143: verify_capture_on_target; a size <= 0 raises an Exception
CapVerify ==
    /\ cap_pc = "verify"
    /\ Log("verify")
    /\ \/ \E raw \in CaptureLsResponses :
             /\ target_file_size' = VerifyResult(raw).value
             /\ IF VerifyResult(raw).value <= 0
                THEN /\ Outcome("verify", "fail")
                     /\ CapFailed
                ELSE /\ Outcome("verify", "ok")
                     /\ cap_pc' = "scp"
                     /\ UNCHANGED overall_success
       \/ \* the serial write of the ls command raised
          /\ Outcome("verify", "raise")
          /\ CapFailed
          /\ UNCHANGED target_file_size
    /\ UNCHANGED <<belowFlow, rebootVars, ser_capture, cap_ret, mainVars>>

\* lines 147-152: transfer_image_scp; False raises an Exception
CapScp ==
    /\ cap_pc = "scp"
    /\ Log("scp")
    /\ \E ok \in BOOLEAN :
          /\ Outcome("scp", IF ok THEN "ok" ELSE "fail")
          /\ IF ok
             THEN /\ cap_pc' = "ffmpeg"
                  /\ UNCHANGED overall_success
             ELSE CapFailed
    /\ UNCHANGED <<belowFlow, rebootVars, ser_capture, target_file_size,
                   cap_ret, mainVars>>

\* the conversion step that reports success whatever ffmpeg returned
CapFfmpegUnchecked ==
    /\ cap_pc = "ffmpeg"
    /\ Log("ffmpeg")
    /\ \E ok \in BOOLEAN :
          /\ Outcome("ffmpeg", IF ok THEN "ok" ELSE "fail")
          /\ overall_success' = TRUE
    /\ cap_pc' = "finally"
    /\ UNCHANGED <<belowFlow, rebootVars, ser_capture, target_file_size,
                   cap_ret, mainVars>>

\* lines 156-164: process_local_image_ffmpeg; only here success is set
CapFfmpeg ==
    /\ cap_pc = "ffmpeg"
    /\ Log("ffmpeg")
    /\ \E ok \in BOOLEAN :
          /\ Outcome("ffmpeg", IF ok THEN "ok" ELSE "fail")
          /\ overall_success' = ok
    /\ cap_pc' = "finally"
    /\ UNCHANGED <<belowFlow, rebootVars, ser_capture, target_file_size,
                   cap_ret, mainVars>>

\* what the target may send in answer to a clean-up command
CleanupReplies == { <<>>, <<"#", " ">>, LOGIN_PROMPT_STR }

\* luckfox_b_camera_ops.py line 138: rm_command
RmCommand == <<"r", "m", " ", "-", "f", " ">> \o TARGET_IMAGE_PATH

\* luckfox_b_serial_ops.py line 231: the logout command
ExitCommand == <<"e", "x", "i", "t">>

\* the call send_command_and_get_output(ser, command, prompts, ...)
CallSend(command, prompts) ==
    /\ sc_pc' = "start"
    /\ sc_cmd' = command
    /\ sc_prompts' = prompts
    /\ sc_buf' = <<>>
    /\ sc_found' = NotFound
    /\ sc_ret' = None
    /\ reply' \in CleanupReplies

\* lines 171-173 and luckfox_b_camera_ops.py lines 135-141: finally:
\* cleanup_target_image sends the rm command
CapCleanup ==
    /\ cap_pc = "finally"
    /\ ser_capture = "open"
    /\ Log("rm")
    /\ CallSend(RmCommand, SHELL_PROMPT_STRS)
    /\ cap_pc' = "cleanup_wait"
    /\ UNCHANGED <<op, wire, rx, written, elapsed, epVars, sendVars, otherVars, loginVars,
                   verifyVars, rebootVars, ser_capture, step, target_file_size,
                   overall_success, cap_ret, mainVars>>

\* luckfox_b_camera_ops.py lines 139-146: cleanup_target_image returns True or
\* False; an exception of send_command_and_get_output is caught neither there
\* nor in the finally clause and leaves run_capture_sequence_after_reboot
CapCleanupDone ==
    /\ cap_pc = "cleanup_wait"
    /\ sc_pc \in {"done", "raised"}
    /\ cap_pc' = IF sc_pc = "raised" THEN "raised" ELSE "logout"
    /\ UNCHANGED <<belowFlow, events, rebootVars, ser_capture, step,
                   target_file_size, overall_success, cap_ret, mainVars>>

\* lines 176-179: finally without a port: only a warning, then the return
CapNoSerial ==
    /\ cap_pc = "finally"
    /\ ser_capture = "none"
    /\ cap_ret' = PyBool(overall_success)
    /\ cap_pc' = "done"
    /\ UNCHANGED <<belowFlow, events, rebootVars, ser_capture, step,
                   target_file_size, overall_success, mainVars>>

\* line 174 and luckfox_b_serial_ops.py lines 225-233: logout_from_target
\* sends exit and waits for a shell prompt or the login prompt
CapLogout ==
    /\ cap_pc = "logout"
    /\ Log("logout")
    /\ CallSend(ExitCommand, SHELL_PROMPT_STRS \o <<LOGIN_PROMPT_STR>>)
    /\ cap_pc' = "logout_wait"
    /\ UNCHANGED <<op, wire, rx, written, elapsed, epVars, sendVars, otherVars, loginVars,
                   verifyVars, rebootVars, ser_capture, step, target_file_size,
                   overall_success, cap_ret, mainVars>>

\* luckfox_b_serial_ops.py lines 234-238: logout_from_target returns True, or
\* False from its except clause when the command raised
CapLogoutDone ==
    /\ cap_pc = "logout_wait"
    /\ sc_pc \in {"done", "raised"}
    /\ cap_pc' = "close"
    /\ UNCHANGED <<belowFlow, events, rebootVars, ser_capture, step,
                   target_file_size, overall_success, cap_ret, mainVars>>

\* lines 175 and 179: close_serial, then return overall_success
CapClose ==
    /\ cap_pc = "close"
    /\ ser_capture' = "closed"
    /\ Log("close")
    /\ cap_ret' = PyBool(overall_success)
    /\ cap_pc' = "done"
    /\ UNCHANGED <<belowFlow, rebootVars, step, target_file_size,
                   overall_success, mainVars>>

(*------------------------------ __main__ -------------------------------*)
\* lines 32-44: write_session_report_file does nothing without log entries;
\* the report file is taken to accept the append (an error of the file system
\* is caught and printed at lines 43-44)
Report == IF session_logged THEN Log("report") ELSE UNCHANGED events

\* lines 183-186: first log entry, then trigger_target_reboot is called
MainStart ==
    /\ main_pc = "start"
    /\ session_logged' = TRUE
    /\ rb_pc' = "connect"
    /\ main_pc' = "reboot"
    /\ UNCHANGED <<belowFlow, events, ser_reboot, rb_login, rb_ret,
                   captureVars, exit_status>>

\* the main block that goes on to the capture whatever the trigger returned
MainAfterRebootUngated ==
    /\ main_pc = "reboot"
    /\ rb_pc = "done"
    /\ cap_pc' = "connect"
    /\ main_pc' = "capture"
    /\ UNCHANGED <<belowFlow, events, exit_status, rebootVars, ser_capture,
                   step, target_file_size, overall_success, cap_ret,
                   session_logged>>

\* lines 186-198: exit 1 after the report when the trigger failed, else wait
\* and call run_capture_sequence_after_reboot
MainAfterReboot ==
    /\ main_pc = "reboot"
    /\ rb_pc = "done"
    /\ IF rb_ret = "False"
       THEN /\ Report
            /\ exit_status' = 1
            /\ main_pc' = "exited"
            /\ UNCHANGED cap_pc
       ELSE /\ cap_pc' = "connect"
            /\ main_pc' = "capture"
            /\ UNCHANGED <<events, exit_status>>
    /\ UNCHANGED <<belowFlow, rebootVars, ser_capture, step, target_file_size,
                   overall_success, cap_ret, session_logged>>

\* lines 198-211: the report, then exit 0 on success and 1 otherwise
MainAfterCapture ==
    /\ main_pc = "capture"
    /\ cap_pc = "done"
    /\ Report
    /\ exit_status' = IF cap_ret = "True" THEN 0 ELSE 1
    /\ main_pc' = "exited"
    /\ UNCHANGED <<belowFlow, rebootVars, captureVars, session_logged>>

\* line 198: an exception left run_capture_sequence_after_reboot: the
\* interpreter prints the traceback and exits with status 1
MainCrash ==
    /\ main_pc = "capture"
    /\ cap_pc = "raised"
    /\ exit_status' = 1
    /\ main_pc' = "exited"
    /\ UNCHANGED <<belowFlow, events, rebootVars, captureVars, session_logged>>

(***************************************************************************)
(* SpecMain: one run of luckfox_image_capture.py.                          *)
(***************************************************************************)
InitMain ==
    /\ op = "main"
    /\ OtherIdle
    /\ wire = <<>>
    /\ rx = <<>>
    /\ written = <<>>
    /\ reply = <<>>
    /\ elapsed = 0
    /\ EpIdle
    /\ ScIdle
    /\ SendIdle
    /\ LoginIdle
    /\ VerifyIdle
    /\ events = <<>>
    /\ RebootIdle
    /\ CaptureIdle
    /\ main_pc = "start"
    /\ session_logged = FALSE
    /\ exit_status = -1

NextMain ==
    \/ MainStart
    \/ RbConnect
    \/ RbLogin
    \/ RbReboot
    \/ RbFinally
    \/ MainAfterReboot
    \/ CapConnect
    \/ CapLogin
    \/ CapServices
    \/ CapGetIp
    \/ CapCapture
    \/ CapVerify
    \/ CapScp
    \/ CapFfmpeg
    \/ CapCleanup
    \/ CapCleanupDone
    \/ CapNoSerial
    \/ CapLogout
    \/ CapLogoutDone
    \/ CapClose
    \/ ScWrite
    \/ ScIter
    \/ ScTimeout
    \/ ScFinish
    \/ Deliver
    \/ Tick
    \/ MainAfterCapture
    \/ MainCrash

SpecMain == InitMain /\ [][NextMain]_vars

(***************************************************************************)
(* Claims settled under SpecMain.                                          *)
(***************************************************************************)
EventAt(e) == {i \in 1..Len(events) : events[i] = e}

\* every occurrence of b comes after some occurrence of a
Precedes(a, b) == \A j \in EventAt(b) : \E i \in EventAt(a) : i < j

\* the event each pipeline step leaves in the log
StepEvents ==
    <<"open", "login", "services", "ip", "capture", "verify", "scp", "ffmpeg">>

Rank(e) == CHOOSE k \in 1..Len(StepEvents) : StepEvents[k] = e

GatedSteps == Elems(PipelineSteps) \ {"services"}

\* C5: run_capture_sequence_after_reboot returns True only if serial connect,
\* login, IP retrieval, the capture command, the verification with a size > 0,
\* the SCP transfer and the FFmpeg conversion all succeeded in that run; of
\* the pipeline steps only the stopping of the services may fail without
\* forcing the result to False.
C5_TrueOnlyIfEverythingWorked ==
    /\ cap_pc = "done" => cap_ret \in {"True", "False"}
    /\ cap_pc # "done" => cap_ret = "unset"
    /\ cap_ret = "True" =>
          /\ \A s \in GatedSteps : step[s] = "ok"
          /\ step["services"] \in {"ok", "fail"}
          /\ target_file_size > 0

\* C5 witness: the services could not be stopped and the run still returned
\* True.
C5_Witness ==
    /\ cap_pc = "done"
    /\ cap_ret = "True"
    /\ step["services"] = "fail"

\* C6: the pipeline is sequential and gated: the capture command is sent only
\* after login and IP retrieval succeeded, the SCP transfer starts only after
\* the verification gave a size > 0, FFmpeg only after the transfer returned
\* True, and once a gated step failed no later pipeline step is executed.
C6_PipelineIsGated ==
    /\ step["capture"] # "unset" => step["login"] = "ok" /\ step["ip"] = "ok"
    /\ step["scp"] # "unset" => step["verify"] = "ok" /\ target_file_size > 0
    /\ step["ffmpeg"] # "unset" => step["scp"] = "ok"
    /\ \A i, j \in 1..Len(PipelineSteps) :
          /\ i < j
          /\ PipelineSteps[i] \in GatedSteps
          /\ step[PipelineSteps[i]] \in {"fail", "raise"}
          => step[PipelineSteps[j]] = "unset"
    /\ \A i, j \in 1..Len(events) :
          /\ i < j
          /\ events[i] \in Elems(StepEvents)
          /\ events[j] \in Elems(StepEvents)
          => Rank(events[i]) < Rank(events[j])
    /\ \A k \in 2..Len(PipelineSteps) :
          step[PipelineSteps[k]] # "unset" =>
              /\ EventAt(StepEvents[k]) # {}
              /\ Precedes(StepEvents[k - 1], StepEvents[k])

\* C6 witness: the verification failed after a successful capture command and
\* the run ended without a transfer.
C6_Witness ==
    /\ cap_pc = "done"
    /\ step["capture"] = "ok"
    /\ step["verify"] = "fail"
    /\ EventAt("scp") = {}

\* C7: whenever run_capture_sequence_after_reboot opened the serial port, the
\* port is closed by the time the function finishes, on the success path and
\* on every failure path, a serial write error during the cleanup commands
\* included, after the rm of the target image and the logout, in this order.
C7_PortClosedOnEveryPath ==
    cap_pc \in {"done", "raised"} /\ step["connect"] = "ok" =>
        /\ ser_capture = "closed"
        /\ EventAt("close") # {}
        /\ Precedes("rm", "logout")
        /\ Precedes("logout", "close")

MaxDim == 2
\* largest size of the raw file before the call, and of actual_file_size
MaxFile == 4

\* b'\0' * n
Zeros(n) == [k \in 1..n |-> "NUL"]

\* lines 63-65: nothing to process without a file or with a size of 0
FfCheck ==
    /\ ff_pc = "start"
    /\ IF ~raw_file.exists \/ ff_args.actual_file_size = 0
       THEN /\ ff_ret' = "False"
            /\ ff_pc' = "done"
       ELSE /\ ff_pc' = "pad"
            /\ UNCHANGED ff_ret
    /\ UNCHANGED <<baseVars, besidesFf,
                   ff_args, raw_file, jpg_size, ffmpeg_run>>

\* the padding that appends the expected size whatever is already there
FfPadWhole ==
    /\ ff_pc = "pad"
    /\ LET cap_width_int == PyInt(ff_args.cap_width)
           cap_height_int == PyInt(ff_args.cap_height)
       IN  IF cap_width_int.exc # "none" \/ cap_height_int.exc # "none"
           THEN /\ ff_ret' = "False"
                /\ ff_pc' = "done"
                /\ UNCHANGED raw_file
           ELSE LET ffmpeg_expected_size ==
                        cap_width_int.value * cap_height_int.value
                        + cap_width_int.value
                          * ((cap_height_int.value + 1) \div 2)
                IN  /\ raw_file' =
                          IF ff_args.actual_file_size < ffmpeg_expected_size
                          THEN [raw_file EXCEPT !.bytes =
                                   @ \o Zeros(ffmpeg_expected_size)]
                          ELSE raw_file
                    /\ ff_pc' = "convert"
                    /\ UNCHANGED ff_ret
    /\ UNCHANGED <<baseVars, besidesFf,
                   ff_args, jpg_size, ffmpeg_run>>

\* lines 67-90 and 119-121: int() of both dimensions (ValueError gives
\* False), the expected NV12 size, and the zero bytes appended to a file
\* that actual_file_size says is shorter
FfPad ==
    /\ ff_pc = "pad"
    /\ LET cap_width_int == PyInt(ff_args.cap_width)
           cap_height_int == PyInt(ff_args.cap_height)
       IN  IF cap_width_int.exc # "none" \/ cap_height_int.exc # "none"
           THEN /\ ff_ret' = "False"
                /\ ff_pc' = "done"
                /\ UNCHANGED raw_file
           ELSE LET y_plane_size == cap_width_int.value * cap_height_int.value
                    uv_plane_effective_height ==
                        (cap_height_int.value + 1) \div 2
                    uv_plane_size ==
                        cap_width_int.value * uv_plane_effective_height
                    ffmpeg_expected_size == y_plane_size + uv_plane_size
                    padding_needed ==
                        ffmpeg_expected_size - ff_args.actual_file_size
                IN  /\ raw_file' =
                          IF ff_args.actual_file_size < ffmpeg_expected_size
                          THEN [raw_file EXCEPT !.bytes =
                                   @ \o Zeros(padding_needed)]
                          ELSE raw_file
                    /\ ff_pc' = "convert"
                    /\ UNCHANGED ff_ret
    /\ UNCHANGED <<baseVars, besidesFf,
                   ff_args, jpg_size, ffmpeg_run>>

\* how subprocess.run of ffmpeg can end: TimeoutExpired, another exception
\* (no ffmpeg installed), a return code of 0 or another one
FfmpegEnds == {"timeout", "error", "zero", "nonzero"}

\* the conversion that trusts the return code alone
FfConvertUnchecked ==
    /\ ff_pc = "convert"
    /\ ffmpeg_run' \in FfmpegEnds
    /\ jpg_size' \in {-1, 0, 1}
    /\ ff_ret' = PyBool(ffmpeg_run' = "zero")
    /\ ff_pc' = "done"
    /\ UNCHANGED <<baseVars, besidesFf,
                   ff_args, raw_file>>

\* lines 92-118 and 122-127: ffmpeg runs; True needs a return code of 0 and
\* an output JPG that exists with a size > 0
FfConvert ==
    /\ ff_pc = "convert"
    /\ ffmpeg_run' \in FfmpegEnds
    /\ jpg_size' \in {-1, 0, 1}
    /\ ff_ret' = PyBool(ffmpeg_run' = "zero" /\ jpg_size' > 0)
    /\ ff_pc' = "done"
    /\ UNCHANGED <<baseVars, besidesFf,
                   ff_args, raw_file>>

\* the dimensions as config.py gives them: strings
DimStrings ==
    { <<Digits[d + 1]>> : d \in 0..MaxDim } \cup { <<"x">>, <<"2", ".", "5">> }

RawFiles ==
    { [exists |-> FALSE, bytes |-> <<>>] }
    \cup { [exists |-> TRUE, bytes |-> [k \in 1..n |-> "d"]] : n \in 0..MaxFile }

(***************************************************************************)
(* SpecFfmpeg: one call of process_local_image_ffmpeg.                     *)
(***************************************************************************)
InitFfmpeg ==
    /\ op = "ffmpeg"
    /\ wire = <<>>
    /\ rx = <<>>
    /\ written = <<>>
    /\ reply = <<>>
    /\ elapsed = 0
    /\ EpIdle
    /\ ScIdle
    /\ SendIdle
    /\ LoginIdle
    /\ AppIdle
    /\ ScriptIdle
    /\ IpIdle
    /\ MuxIdle
    /\ ff_pc = "start"
    /\ raw_file \in RawFiles
    /\ ff_args \in [none : {FALSE}, cap_width : DimStrings,
                    cap_height : DimStrings, actual_file_size : 0..MaxFile,
                    raw_before : {raw_file}]
    /\ jpg_size = -1
    /\ ffmpeg_run = "none"
    /\ ff_ret = "unset"

NextFfmpeg ==
    \/ FfCheck
    \/ FfPad
    \/ FfConvert

SpecFfmpeg == InitFfmpeg /\ [][NextFfmpeg]_vars

\* the dimensions of the call are integers
IntegerDims ==
    /\ PyInt(ff_args.cap_width).exc = "none"
    /\ PyInt(ff_args.cap_height).exc = "none"

\* width*height + width*ceil(height/2)
ExpectedSize ==
    LET width == PyInt(ff_args.cap_width).value
        height == PyInt(ff_args.cap_height).value
        ceil_half == CHOOSE c \in 0..height : 2 * c >= height /\ 2 * c < height + 2
    IN  width * height + width * ceil_half

\* what C11 says of the raw file once the padding step is over
PaddedAsClaimed ==
    /\ ff_args.actual_file_size < ExpectedSize =>
          /\ raw_file.exists
          /\ raw_file.bytes = ff_args.raw_before.bytes
                \o Zeros(ExpectedSize - ff_args.actual_file_size)
          /\ Len(ff_args.raw_before.bytes) = ff_args.actual_file_size
                => Len(raw_file.bytes) = ExpectedSize
    /\ ff_args.actual_file_size >= ExpectedSize =>
          raw_file = ff_args.raw_before
    /\ Len(raw_file.bytes) >= Len(ff_args.raw_before.bytes)
    /\ SubSeq(raw_file.bytes, 1, Len(ff_args.raw_before.bytes))
          = ff_args.raw_before.bytes

C12_FalseWithoutRaising ==
    /\ ff_ret \in {"unset", "True", "False"}
    /\ ff_pc = "done" <=> ff_ret # "unset"
    /\ ~ff_args.raw_before.exists \/ ff_args.actual_file_size = 0 =>
          /\ raw_file = ff_args.raw_before
          /\ ffmpeg_run = "none"
          /\ jpg_size = -1
          /\ ff_pc = "done" => ff_ret = "False"
    /\ ff_pc = "done" /\ ~IntegerDims => ff_ret = "False" /\ ffmpeg_run = "none"
    /\ ffmpeg_run \in {"timeout", "nonzero", "error"} => ff_ret = "False"
    /\ ffmpeg_run = "zero" /\ jpg_size <= 0 => ff_ret = "False"

\* C12 witness: ffmpeg exited with 0, left an empty JPG, and the call returned
\* False.
C12_Witness ==
    /\ ff_pc = "done"
    /\ ffmpeg_run = "zero"
    /\ jpg_size = 0
    /\ ff_ret = "False"

(***************************************************************************)
(* luckfox_b_serial_ops.get_target_ip and parse_ip_address_from_output     *)
(*                                                                         *)
(* The text of a command output is a sequence of symbols: blanks and line  *)
(* ends, "/" and the words of the two output formats, each word one        *)
(* symbol: "inet", "addr:", "Link encap:", an interface name, a dotted     *)
(* address (\d{1,3}\.\d{1,3}\.\d{1,3}\.\d{1,3}), a prefix length (\d+).     *)
(***************************************************************************)
\* config.py: TARGET_NETWORK_INTERFACE
TARGET_NETWORK_INTERFACE == "eth0"

Addresses == {"10.0.0.1", "10.0.0.2"}
PrefixLengths == {"24"}

\* symbols that are no word characters: \b lies between them and a word
IsWordSymbol(c) == ~IsSpace(c) /\ c # "/"

\* \bname\b at position q
WordAt(s, q, name) ==
    /\ s[q] = name
    /\ q = 1 \/ ~IsWordSymbol(s[q - 1])
    /\ q = Len(s) \/ ~IsWordSymbol(s[q + 1])

\* line 245: inet\s+(addr)/\d+\s+.*?\bname\b matches with "inet" at i and
\* the address at j; "." matches no line end
IpAddrMatch(s, i, j, name) ==
    /\ s[i] = "inet"
    /\ j > i + 1
    /\ j + 3 <= Len(s)
    /\ \A k \in (i + 1)..(j - 1) : IsSpace(s[k])
    /\ s[j] \in Addresses
    /\ s[j + 1] = "/"
    /\ s[j + 2] \in PrefixLengths
    /\ \E q \in (j + 4)..Len(s) :
          /\ WordAt(s, q, name)
          /\ \E p \in (j + 4)..q :
                /\ \A k \in (j + 3)..(p - 1) : IsSpace(s[k])
                /\ \A k \in p..(q - 1) : s[k] # "\n"

\* lines 255-256: ^name\s+.*?Link encap:.*?(?=\n\n|\n^[^\s]|\Z) with
\* MULTILINE and DOTALL: the block that starts at i, as [from, to], or <<>>
InterfaceBlock(s, i, name) ==
    LET links == {l \in (i + 2)..Len(s) : s[l] = "Link encap:"}
        link == CHOOSE l \in links : \A m \in links : l <= m
        ends == {e \in (link + 1)..(Len(s) + 1) :
                    \/ e = Len(s) + 1
                    \/ /\ e < Len(s)
                       /\ s[e] = "\n"
                       /\ s[e + 1] = "\n" \/ ~IsSpace(s[e + 1])}
        end == CHOOSE e \in ends : \A m \in ends : e <= m
    IN  IF /\ i = 1 \/ s[i - 1] = "\n"
           /\ s[i] = name
           /\ i < Len(s)
           /\ IsSpace(s[i + 1])
           /\ links # {}
        THEN <<i, end - 1>>
        ELSE <<>>

\* lines 241-263: parse_ip_address_from_output; "None" for None
ParseIpAddressFromOutput(output_str, interface_name) ==
    LET s == output_str
        matches == {m \in (1..Len(s)) \X (1..Len(s)) :
                       IpAddrMatch(s, m[1], m[2], interface_name)}
        match == CHOOSE m \in matches :
                    \A n \in matches : m[1] < n[1] \/ (m[1] = n[1] /\ m[2] <= n[2])
        blocks == {i \in 1..Len(s) : InterfaceBlock(s, i, interface_name) # <<>>}
        block == InterfaceBlock(s, CHOOSE i \in blocks : \A k \in blocks : i <= k,
                                interface_name)
        ip_matches == {k \in block[1]..(block[2] - 3) :
                          /\ s[k] = "inet"
                          /\ s[k + 1] = " "
                          /\ s[k + 2] = "addr:"
                          /\ s[k + 3] \in Addresses}
        ip_match == CHOOSE k \in ip_matches : \A n \in ip_matches : k <= n
    IN  IF matches # {} THEN s[match[2]]
        ELSE IF blocks # {} /\ ip_matches # {} THEN s[ip_match + 3]
        ELSE "None"

\* lines 271 and 283: if output: neither None nor the empty string
Truthy(output) == output # None /\ output # <<>>

\* line 269: command1
Command1 == <<"ip addr show ", TARGET_NETWORK_INTERFACE>>
\* line 281: command2
Command2 == <<"ifconfig ", TARGET_NETWORK_INTERFACE>>

\* the call send_command_and_get_output(ser, command, prompts, ...) against
\* a target that answers with one of replies
SendCommand(command, prompts, replies) ==
    /\ sc_pc' = "start"
    /\ sc_cmd' = command
    /\ sc_prompts' = prompts
    /\ sc_buf' = <<>>
    /\ sc_found' = NotFound
    /\ sc_ret' = None
    /\ reply' \in replies

\* one line of `ip addr show`, and the block of `ifconfig`
IpLine(a, name) == <<"inet", " ", a, "/", "24", " ", name, "\n">>
IfconfigBlock(a, name) ==
    <<name, " ", "Link encap:", "\n", " ", "inet", " ", "addr:", a, "\n">>

\* what the target prints for a command before its next prompt
IpOutputs ==
    { <<>>,
      IpLine("10.0.0.1", TARGET_NETWORK_INTERFACE),
      IpLine("10.0.0.1", "lo"),
      IfconfigBlock("10.0.0.2", TARGET_NETWORK_INTERFACE) }

\* the target stays silent, or echoes the command, prints and prompts
IpReplies(command) ==
    { <<>> } \cup { TargetEcho(command) \o o \o <<"#", " ">> : o \in IpOutputs }

\* lines 265-270: the first command goes out
IpFirst ==
    /\ ip_pc = "start"
    /\ SendCommand(Command1, SHELL_PROMPT_STRS, IpReplies(Command1))
    /\ ip_pc' = "wait1"
    /\ UNCHANGED <<op, wire, rx, written, elapsed, epVars, sendVars,
                   callerVars, besidesIp, output1, output2, ip_ret>>

\* the first command answered, the second command goes out whatever came
IpAfterFirstAlways ==
    /\ ip_pc = "wait1"
    /\ sc_pc \in {"done", "raised"}
    /\ IF sc_pc = "raised"
       THEN /\ ip_pc' = "raised"
            /\ UNCHANGED <<output1, ip_ret, scVars, reply>>
       ELSE /\ output1' = sc_ret
            /\ SendCommand(Command2, SHELL_PROMPT_STRS, IpReplies(Command2))
            /\ ip_pc' = "wait2"
            /\ UNCHANGED ip_ret
    /\ UNCHANGED <<op, wire, rx, written, elapsed, epVars, sendVars,
                   callerVars, besidesIp, output2>>

\* lines 270-282: output1 is back: return the address parsed from it, else
\* send the second command; an exception of the write leaves the function
IpAfterFirst ==
    /\ ip_pc = "wait1"
    /\ sc_pc \in {"done", "raised"}
    /\ IF sc_pc = "raised"
       THEN /\ ip_pc' = "raised"
            /\ UNCHANGED <<output1, ip_ret, scVars, reply>>
       ELSE /\ output1' = sc_ret
            /\ LET ip == IF Truthy(sc_ret)
                         THEN ParseIpAddressFromOutput(sc_ret,
                                                       TARGET_NETWORK_INTERFACE)
                         ELSE "None"
               IN  IF ip # "None"
                   THEN /\ ip_ret' = ip
                        /\ ip_pc' = "done"
                        /\ UNCHANGED <<scVars, reply>>
                   ELSE /\ SendCommand(Command2, SHELL_PROMPT_STRS,
                                       IpReplies(Command2))
                        /\ ip_pc' = "wait2"
                        /\ UNCHANGED ip_ret
    /\ UNCHANGED <<op, wire, rx, written, elapsed, epVars, sendVars,
                   callerVars, besidesIp, output2>>

\* lines 282-292: output2 is back: return the address parsed from it or None
IpAfterSecond ==
    /\ ip_pc = "wait2"
    /\ sc_pc \in {"done", "raised"}
    /\ IF sc_pc = "raised"
       THEN /\ ip_pc' = "raised"
            /\ UNCHANGED <<output2, ip_ret>>
       ELSE /\ output2' = sc_ret
            /\ ip_ret' = IF Truthy(sc_ret)
                         THEN ParseIpAddressFromOutput(sc_ret,
                                                       TARGET_NETWORK_INTERFACE)
                         ELSE "None"
            /\ ip_pc' = "done"
    /\ UNCHANGED <<baseVars, besidesIp, output1>>

(***************************************************************************)
(* SpecIp: one call of get_target_ip on a logged-in port.                  *)
(***************************************************************************)
InitIp ==
    /\ op = "get_target_ip"
    /\ wire = <<>>
    /\ rx = <<>>
    /\ written = <<>>
    /\ reply = <<>>
    /\ elapsed = 0
    /\ EpIdle
    /\ ScIdle
    /\ SendIdle
    /\ LoginIdle
    /\ AppIdle
    /\ ScriptIdle
    /\ FfIdle
    /\ MuxIdle
    /\ ip_pc = "start"
    /\ output1 = None
    /\ output2 = None
    /\ ip_ret = "unset"

NextIp ==
    \/ IpFirst
    \/ IpAfterFirst
    \/ IpAfterSecond
    \/ ScWrite
    \/ ScIter
    \/ ScTimeout
    \/ ScFinish
    \/ Deliver
    \/ Tick

SpecIp == InitIp /\ [][NextIp]_vars

\* the address a command output yields, "None" if it yields none
Yield(output) ==
    IF Truthy(output)
    THEN ParseIpAddressFromOutput(output, TARGET_NETWORK_INTERFACE)
    ELSE "None"

\* C13: get_target_ip writes `ip addr show <interface>` first and writes
\* `ifconfig <interface>` only after the first command gave None (timeout),
\* empty output or no parseable address; it returns the first address
\* parsed, writes nothing after that, and returns None exactly when neither
\* command yielded an address.
C13_IpThenIfconfig ==
    /\ Len(written) <= 2
    /\ Len(written) >= 1 => written[1] = CommandBytes(Command1)
    /\ Len(written) = 2 =>
          /\ written[2] = CommandBytes(Command2)
          /\ ip_pc \in {"wait2", "done", "raised"}
          /\ output1 = None \/ output1 = <<>> \/ Yield(output1) = "None"
    /\ ip_pc = "done" =>
          /\ ip_ret = IF Yield(output1) # "None" THEN Yield(output1)
                      ELSE Yield(output2)
          /\ Yield(output1) # "None" => Len(written) = 1
          /\ Yield(output1) = "None" => Len(written) = 2
          /\ ip_ret = "None" <=>
                (Yield(output1) = "None" /\ Yield(output2) = "None")
    /\ ip_pc # "done" => ip_ret = "unset"

\* C13 witness: the first command printed no address of the interface, the
\* second one did, and that address was returned.
C13_Witness ==
    /\ ip_pc = "done"
    /\ Truthy(output1)
    /\ Len(written) = 2
    /\ ip_ret \in Addresses

(***************************************************************************)
(* 74HC4051array.py (and 74HC4051.py): the selector pins in sysfs and      *)
(* select_mux_channel                                                      *)
(***************************************************************************)
\* channels tried below 0 and above NUM_CHANNELS - 1
MaxOff == 2

\* (channel >> k) & 1 for a channel in range
Bit(channel, k) == (channel \div (2 ^ k)) % 2

\* lines 91-109: the first n calls of gpio_set_value succeeded: the value
\* files hold the values
SetValues(values, n) ==
    /\ gpio_value' = [p \in Elems(SELECTOR_PINS) |->
                         IF \E k \in 1..n : SELECTOR_PINS[k] = p
                         THEN values[CHOOSE k \in 1..n : SELECTOR_PINS[k] = p]
                         ELSE gpio_value[p]]
    /\ gpio_writes' = [k \in 1..n |-> <<SELECTOR_PINS[k], values[k]>>]

\* the selection that sets S0 from the channel and leaves S1 and S2 at 0
SelectMuxChannelLowBit(channel, n, ret) ==
    IF ~(0 <= channel /\ channel < NUM_CHANNELS)
    THEN /\ n = 0
         /\ ret = "False"
         /\ UNCHANGED <<gpio_value, gpio_writes>>
    ELSE /\ \A k \in 1..n : SELECTOR_PINS[k] \in gpio_exported
         /\ SetValues(<<Bit(channel, 0), 0, 0>>, n)
         /\ ret = PyBool(n = Len(SELECTOR_PINS))

\* lines 112-120 (74HC4051.py lines 77-94): select_mux_channel(channel) with
\* its first n calls of gpio_set_value succeeding: a call fails for a pin
\* without a value file, and may fail on any write
SelectMuxChannel(channel, n, ret) ==
    IF ~(0 <= channel /\ channel < NUM_CHANNELS)
    THEN /\ n = 0
         /\ ret = "False"
         /\ UNCHANGED <<gpio_value, gpio_writes>>
    ELSE /\ \A k \in 1..n : SELECTOR_PINS[k] \in gpio_exported
         /\ SetValues(<<Bit(channel, 0), Bit(channel, 1), Bit(channel, 2)>>, n)
         /\ ret = PyBool(n = Len(SELECTOR_PINS))

\* one call of select_mux_channel
MuxSelect ==
    /\ mux_pc = "start"
    /\ \E n \in 0..Len(SELECTOR_PINS) :
          /\ SelectMuxChannel(sel_channel, n, sel_ret')
    /\ mux_pc' = "done"
    /\ UNCHANGED <<baseVars, besidesMux, gpio_exported, script_exported,
                   unexport_tried, sel_channel, calVars, motionVars>>

(***************************************************************************)
(* SpecMux: one call of select_mux_channel for every channel and every     *)
(* state of the selector pins.                                             *)
(***************************************************************************)
InitMux ==
    /\ op = "select_mux_channel"
    /\ wire = <<>>
    /\ rx = <<>>
    /\ written = <<>>
    /\ reply = <<>>
    /\ elapsed = 0
    /\ EpIdle
    /\ ScIdle
    /\ SendIdle
    /\ LoginIdle
    /\ AppIdle
    /\ ScriptIdle
    /\ FfIdle
    /\ IpIdle
    /\ CalIdle
    /\ MotionIdle
    /\ gpio_exported \in SUBSET Elems(SELECTOR_PINS)
    /\ gpio_value \in [Elems(SELECTOR_PINS) -> {0, 1}]
    /\ gpio_writes = <<>>
    /\ script_exported = {}
    /\ unexport_tried = {}
    /\ mux_pc = "start"
    /\ sel_channel \in (0 - MaxOff)..(NUM_CHANNELS - 1 + MaxOff)
    /\ sel_ret = "unset"

NextMux == MuxSelect

SpecMux == InitMux /\ [][NextMux]_vars

\* C14: for every channel c in 0..7, once select_mux_channel has returned
\* True the values written to S0, S1, S2 satisfy S0 + 2*S1 + 4*S2 = c; for
\* every channel outside 0..7 it returns False and writes to no selector pin.
C14_BinaryChannelSelect ==
    mux_pc = "done" =>
        /\ sel_ret \in {"True", "False"}
        /\ sel_ret = "True" =>
              /\ sel_channel \in 0..7
              /\ Len(gpio_writes) = 3
              /\ \A k \in 1..3 : gpio_writes[k][1] = SELECTOR_PINS[k]
              /\ gpio_writes[1][2] + 2 * gpio_writes[2][2]
                    + 4 * gpio_writes[3][2] = sel_channel
              /\ gpio_value[SELECTOR_PINS[1]] + 2 * gpio_value[SELECTOR_PINS[2]]
                    + 4 * gpio_value[SELECTOR_PINS[3]] = sel_channel
        /\ sel_channel \notin 0..7 =>
              /\ sel_ret = "False"
              /\ gpio_writes = <<>>

\* C14 witness: channel 6 was selected: S0 = 0, S1 = 1, S2 = 1.
C14_Witness ==
    /\ mux_pc = "done"
    /\ sel_ret = "True"
    /\ sel_channel = 6
    /\ gpio_writes = << <<64, 0>>, <<65, 1>>, <<66, 1>> >>

(***************************************************************************)
(* 74HC4051array.py: read_adc_voltage and calibrate_background             *)
(*                                                                         *)
(* Voltages are in millivolts, rounded down.                               *)
(***************************************************************************)
\* line 16: ADC_VREF, in millivolts
ADC_VREF == 1800
\* line 18: ADC_MAX_VALUE = 2**10 - 1
ADC_MAX_VALUE == 1023

\* read_adc_voltage returned None
NoVoltage == -1
\* math.nan
NaN == -2

\* lines 123-145: read_adc_voltage for a raw file that cannot be read
\* (NoText) or holds the given text
ReadAdcVoltage(raw_file_text) ==
    IF raw_file_text.is_none THEN NoVoltage
    ELSE LET raw_value == PyInt(Strip(raw_file_text.text))
         IN  IF raw_value.exc # "none" THEN NoVoltage
             ELSE (raw_value.value * ADC_VREF) \div ADC_MAX_VALUE

\* what the ADC raw file may give at a read
AdcFiles ==
    { NoText, Text(<<"x">>), Text(<<"0", "\n">>), Text(<<"5", "1", "2", "\n">>) }

\* lines 148-154: calibrate_background starts
CalStart ==
    /\ cal_pc = "start"
    /\ temp_readings' = [k \in 1..NUM_CHANNELS |-> 0]
    /\ successful_reads' = 0
    /\ cal_ch' = 0
    /\ cal_pc' = "loop"
    /\ UNCHANGED <<baseVars, besidesMux, gpioVars, selVars, motionVars,
                   background_voltages, cal_ret>>

\* the loop body that counts a channel whether or not it could be read
CalChannelCountsAll ==
    /\ cal_pc = "loop"
    /\ cal_ch < NUM_CHANNELS
    /\ \E n \in 0..Len(SELECTOR_PINS), ok \in {"True", "False"}, f \in AdcFiles :
          /\ SelectMuxChannel(cal_ch, n, ok)
          /\ LET voltage == ReadAdcVoltage(f)
             IN  /\ temp_readings' =
                       [temp_readings EXCEPT ![cal_ch + 1] =
                           IF ok = "True" /\ voltage # NoVoltage
                           THEN voltage ELSE NaN]
                 /\ successful_reads' = successful_reads + 1
    /\ cal_ch' = cal_ch + 1
    /\ UNCHANGED <<baseVars, besidesMux, gpio_exported, script_exported,
                   unexport_tried, selVars, motionVars, cal_pc,
                   background_voltages, cal_ret>>

\* lines 155-170: one pass of the loop: select the channel, read the ADC,
\* keep the voltage and count it, or keep nan
CalChannel ==
    /\ cal_pc = "loop"
    /\ cal_ch < NUM_CHANNELS
    /\ \E n \in 0..Len(SELECTOR_PINS), ok \in {"True", "False"}, f \in AdcFiles :
          /\ SelectMuxChannel(cal_ch, n, ok)
          /\ LET voltage == ReadAdcVoltage(f)
             IN  IF ok = "True" /\ voltage # NoVoltage
                 THEN /\ temp_readings' =
                            [temp_readings EXCEPT ![cal_ch + 1] = voltage]
                      /\ successful_reads' = successful_reads + 1
                 ELSE /\ temp_readings' =
                            [temp_readings EXCEPT ![cal_ch + 1] = NaN]
                      /\ UNCHANGED successful_reads
    /\ cal_ch' = cal_ch + 1
    /\ UNCHANGED <<baseVars, besidesMux, gpio_exported, script_exported,
                   unexport_tried, selVars, motionVars, cal_pc,
                   background_voltages, cal_ret>>

\* lines 172-182: all channels read: replace background_voltages and return
\* True, else return False
CalFinish ==
    /\ cal_pc = "loop"
    /\ cal_ch = NUM_CHANNELS
    /\ IF successful_reads = NUM_CHANNELS
       THEN /\ background_voltages' = temp_readings
            /\ cal_ret' = "True"
       ELSE /\ cal_ret' = "False"
            /\ UNCHANGED background_voltages
    /\ cal_pc' = "done"
    /\ UNCHANGED <<baseVars, besidesMux, gpioVars, selVars, motionVars,
                   cal_ch, temp_readings, successful_reads>>

\* background_voltages before the call: line 32, or an earlier calibration
Backgrounds ==
    { [k \in 1..NUM_CHANNELS |-> 0], [k \in 1..NUM_CHANNELS |-> 100 * k] }

(***************************************************************************)
(* SpecCalibrate: one call of calibrate_background.                        *)
(***************************************************************************)
InitCalibrate ==
    /\ op = "calibrate_background"
    /\ wire = <<>>
    /\ rx = <<>>
    /\ written = <<>>
    /\ reply = <<>>
    /\ elapsed = 0
    /\ EpIdle
    /\ ScIdle
    /\ SendIdle
    /\ LoginIdle
    /\ AppIdle
    /\ ScriptIdle
    /\ FfIdle
    /\ IpIdle
    /\ SelIdle
    /\ MotionIdle
    /\ gpio_exported = Elems(SELECTOR_PINS)
    /\ gpio_value = [p \in Elems(SELECTOR_PINS) |-> 0]
    /\ gpio_writes = <<>>
    /\ script_exported = {}
    /\ unexport_tried = {}
    /\ cal_pc = "start"
    /\ cal_ch = 0
    /\ temp_readings = <<>>
    /\ successful_reads = 0
    /\ background_voltages \in Backgrounds
    /\ cal_ret = "unset"

NextCalibrate ==
    \/ CalStart
    \/ CalChannel
    \/ CalFinish

SpecCalibrate == InitCalibrate /\ [][NextCalibrate]_vars

\* the channels whose selection and ADC read succeeded so far
Calibrated == {k \in 1..cal_ch : temp_readings[k] # NaN}

\* C15: calibrate_background replaces background_voltages by the 8 fresh
\* readings and returns True only when the selection and the ADC read
\* succeeded for all 8 channels; if any channel failed it returns False and
\* background_voltages is exactly what it was before the call.
C15_CalibrationAllOrNothing ==
    /\ cal_pc # "done" => background_voltages \in Backgrounds /\ cal_ret = "unset"
    /\ cal_pc = "done" =>
          /\ cal_ret \in {"True", "False"}
          /\ cal_ret = "True" <=> Calibrated = 1..8
          /\ cal_ret = "True" =>
                /\ background_voltages = temp_readings
                /\ \A k \in 1..8 : background_voltages[k] >= 0
          /\ cal_ret = "False" => background_voltages \in Backgrounds

\* C15 witness: seven channels were read, one was not, and the call returned
\* False with the earlier background in place.
C15_Witness ==
    /\ cal_pc = "done"
    /\ cal_ret = "False"
    /\ Cardinality(Calibrated) = 7
    /\ background_voltages[1] = 100

(***************************************************************************)
(* 74HC4051array.py: the main program of the motion-detection script       *)
(***************************************************************************)
PinAt(i) == SELECTOR_PINS[i + 1]

\* lines 201-207 and 36-56: gpio_export of the next pin: nothing to do for a
\* pin that is exported already, else a write to the export file; a failed
\* write ends in sys.exit(1), which no except clause of line 314-321 catches
MoExport ==
    /\ mo_pc = "export"
    /\ IF PinAt(mo_pin) \in gpio_exported
       THEN /\ mo_pc' = "direction"
            /\ UNCHANGED <<gpio_exported, script_exported>>
       ELSE \/ /\ gpio_exported' = gpio_exported \cup {PinAt(mo_pin)}
               /\ script_exported' = script_exported \cup {PinAt(mo_pin)}
               /\ mo_pc' = "direction"
            \/ /\ mo_pc' = "finally"
               /\ UNCHANGED <<gpio_exported, script_exported>>
    /\ UNCHANGED <<baseVars, besidesMux, gpio_value, gpio_writes,
                   unexport_tried, selVars, calVars, mo_pin,
                   gpios_successfully_configured, scan_ch>>

\* lines 210-228 and 74-89: gpio_set_direction of the pin; a failure breaks
\* the loop and raises RuntimeError; after the last pin the flag is set and
\* calibrate_background is called
MoDirection ==
    /\ mo_pc = "direction"
    /\ \/ /\ mo_pc' = "finally"
          /\ UNCHANGED <<mo_pin, gpios_successfully_configured, cal_pc>>
       \/ /\ mo_pin' = mo_pin + 1
          /\ IF mo_pin + 1 < Len(SELECTOR_PINS)
             THEN /\ mo_pc' = "export"
                  /\ UNCHANGED <<gpios_successfully_configured, cal_pc>>
             ELSE /\ gpios_successfully_configured' = TRUE
                  /\ cal_pc' = "start"
                  /\ mo_pc' = "calibrate"
    /\ UNCHANGED <<baseVars, besidesMux, gpioVars, selVars, cal_ch,
                   temp_readings, successful_reads, background_voltages,
                   cal_ret, scan_ch>>

\* lines 227-234: calibrate_background returned: False raises RuntimeError
MoCalibrated ==
    /\ mo_pc = "calibrate"
    /\ cal_pc = "done"
    /\ mo_pc' = IF cal_ret = "True" THEN "scan" ELSE "finally"
    /\ UNCHANGED <<baseVars, besidesMux, gpioVars, selVars, calVars, mo_pin,
                   gpios_successfully_configured, scan_ch>>

\* lines 236-257: the scan selects the next channel and reads the ADC; after
\* the last channel the loop starts over
MoScanChannel ==
    /\ mo_pc = "scan"
    /\ \E n \in 0..Len(SELECTOR_PINS), ok \in {"True", "False"} :
          SelectMuxChannel(scan_ch, n, ok)
    /\ scan_ch' = (scan_ch + 1) % NUM_CHANNELS
    /\ UNCHANGED <<baseVars, besidesMux, gpio_exported, script_exported,
                   unexport_tried, selVars, calVars, mo_pc, mo_pin,
                   gpios_successfully_configured>>

\* lines 314-321: Ctrl+C or an unexpected exception anywhere in the try
\* block
MoInterrupt ==
    /\ mo_pc \in {"export", "direction", "calibrate", "scan"}
    /\ mo_pc' = "finally"
    /\ UNCHANGED <<baseVars, besidesMux, gpioVars, selVars, calVars, mo_pin,
                   gpios_successfully_configured, scan_ch>>

\* lines 322-333 and 60-71: finally: when gpios_successfully_configured is
\* set, gpio_unexport writes every pin that exists to the unexport file (a
\* failed write is only a warning); otherwise nothing is unexported
MoFinally ==
    /\ mo_pc = "finally"
    /\ IF gpios_successfully_configured
       THEN \E failed \in SUBSET (Elems(SELECTOR_PINS) \cap gpio_exported) :
               /\ unexport_tried' = Elems(SELECTOR_PINS) \cap gpio_exported
               /\ gpio_exported' = failed
       ELSE UNCHANGED <<unexport_tried, gpio_exported>>
    /\ mo_pc' = "exited"
    /\ UNCHANGED <<baseVars, besidesMux, gpio_value, gpio_writes,
                   script_exported, selVars, calVars, mo_pin,
                   gpios_successfully_configured, scan_ch>>

(***************************************************************************)
(* SpecMotion: one run of 74HC4051array.py, started while the second       *)
(* selector pin is still exported from an earlier run.                     *)
(***************************************************************************)
InitMotion ==
    /\ op = "motion"
    /\ wire = <<>>
    /\ rx = <<>>
    /\ written = <<>>
    /\ reply = <<>>
    /\ elapsed = 0
    /\ EpIdle
    /\ ScIdle
    /\ SendIdle
    /\ LoginIdle
    /\ AppIdle
    /\ ScriptIdle
    /\ FfIdle
    /\ IpIdle
    /\ SelIdle
    /\ gpio_exported = {SELECTOR_PINS[2]}
    /\ gpio_value = [p \in Elems(SELECTOR_PINS) |-> 0]
    /\ gpio_writes = <<>>
    /\ script_exported = {}
    /\ unexport_tried = {}
    /\ cal_pc = "idle"
    /\ cal_ch = 0
    /\ temp_readings = <<>>
    /\ successful_reads = 0
    /\ background_voltages = [k \in 1..NUM_CHANNELS |-> 0]
    /\ cal_ret = "unset"
    /\ mo_pc = "export"
    /\ mo_pin = 0
    /\ gpios_successfully_configured = FALSE
    /\ scan_ch = 0

NextMotion ==
    \/ MoExport
    \/ MoDirection
    \/ CalStart
    \/ CalChannel
    \/ CalFinish
    \/ MoCalibrated
    \/ MoScanChannel
    \/ MoInterrupt
    \/ MoFinally

SpecMotion == InitMotion /\ [][NextMotion]_vars

\* C16: on every exit path (Ctrl+C, a direction-setup failure part-way
\* through the pin list, a calibration failure, an unexpected error) every
\* selector pin the script exported has been written to the unexport file
\* by the time the script exits.
C16_UnexportOnEveryExit ==
    mo_pc = "exited" => script_exported \subseteq unexport_tried

(***************************************************************************)
(* status_reporter2.py: the connection attempts and the publish loop       *)
(***************************************************************************)
MaxWaitTicks == 2
MaxCycles == 3
max_connection_attempts == 5

\* the network loop thread and the broker: while the thread runs after a
\* connect call the CONNACK may arrive; an established connection may drop
MqNetwork ==
    /\ rp_pc \notin {"idle", "exited"}
    /\ \/ /\ loop_running
          /\ connect_calls > 0
          /\ ~mq_connected
          /\ mq_connected' = TRUE
       \/ /\ mq_connected
          /\ mq_connected' = FALSE
    /\ UNCHANGED <<baseVars, besidesReporter, rp_pc, connection_attempts,
                   connect_calls, loop_running, wait_ticks, cycles,
                   published, cycle_connected, loop_entry, rp_status>>

\* lines 159-163 and 178-183: one pass of the connection loop begins: connect
\* raises (refused, unresolved, other) or returns and loop_start is called
RpAttempt ==
    /\ rp_pc = "while"
    /\ ~mq_connected
    /\ connection_attempts < max_connection_attempts
    /\ connect_calls' = connect_calls + 1
    /\ \/ /\ rp_pc' = "count"
          /\ UNCHANGED <<loop_running, wait_ticks>>
       \/ /\ loop_running' = TRUE
          /\ wait_ticks' = 0
          /\ rp_pc' = "wait"
    /\ UNCHANGED <<baseVars, besidesReporter, connection_attempts,
                   mq_connected, cycles, published, cycle_connected,
                   loop_entry, rp_status>>

\* lines 165-167: the wait of up to 10 s for the connection
RpWait ==
    /\ rp_pc = "wait"
    /\ IF ~mq_connected /\ wait_ticks < MaxWaitTicks
       THEN /\ wait_ticks' = wait_ticks + 1
            /\ UNCHANGED rp_pc
       ELSE /\ rp_pc' = "waited"
            /\ UNCHANGED wait_ticks
    /\ UNCHANGED <<baseVars, besidesReporter, connection_attempts,
                   connect_calls, mq_connected, loop_running, cycles,
                   published, cycle_connected, loop_entry, rp_status>>

\* lines 169-176: connected: break; else the loop thread is to be stopped
RpWaited ==
    /\ rp_pc = "waited"
    /\ rp_pc' = IF mq_connected THEN "check" ELSE "stopping"
    /\ UNCHANGED <<baseVars, besidesReporter, connection_attempts,
                   connect_calls, mq_connected, loop_running, wait_ticks,
                   cycles, published, cycle_connected, loop_entry,
                   rp_status>>

\* line 175: loop_stop
RpLoopStop ==
    /\ rp_pc = "stopping"
    /\ loop_running' = FALSE
    /\ rp_pc' = "count"
    /\ UNCHANGED <<baseVars, besidesReporter, connection_attempts,
                   connect_calls, mq_connected, wait_ticks, cycles,
                   published, cycle_connected, loop_entry, rp_status>>

\* lines 185-188: connection_attempts += 1 and the pause before the retry
RpCount ==
    /\ rp_pc = "count"
    /\ connection_attempts' = connection_attempts + 1
    /\ rp_pc' = "while"
    /\ UNCHANGED <<baseVars, besidesReporter, connect_calls, mq_connected,
                   loop_running, wait_ticks, cycles, published,
                   cycle_connected, loop_entry, rp_status>>

\* line 159: the condition of the connection loop is false
RpWhileExit ==
    /\ rp_pc = "while"
    /\ mq_connected \/ connection_attempts >= max_connection_attempts
    /\ rp_pc' = "check"
    /\ UNCHANGED <<baseVars, besidesReporter, connection_attempts,
                   connect_calls, mq_connected, loop_running, wait_ticks,
                   cycles, published, cycle_connected, loop_entry,
                   rp_status>>

\* the publish loop entered whatever is_connected() says
RpCheckAlwaysEnter ==
    /\ rp_pc = "check"
    /\ rp_pc' = "loop"
    /\ loop_entry' = PyBool(mq_connected)
    /\ UNCHANGED <<baseVars, besidesReporter, connection_attempts,
                   connect_calls, mq_connected, loop_running, wait_ticks,
                   cycles, published, cycle_connected, rp_status>>

\* lines 190-194: not connected: sys.exit(1); else the publish loop begins
RpCheck ==
    /\ rp_pc = "check"
    /\ IF ~mq_connected
       THEN /\ rp_pc' = "exited"
            /\ rp_status' = 1
            /\ UNCHANGED loop_entry
       ELSE /\ rp_pc' = "loop"
            /\ loop_entry' = PyBool(mq_connected)
            /\ UNCHANGED rp_status
    /\ UNCHANGED <<baseVars, besidesReporter, connection_attempts,
                   connect_calls, mq_connected, loop_running, wait_ticks,
                   cycles, published, cycle_connected>>

\* lines 195-203: a cycle begins with the test of is_connected(); not
\* connected: sleep and continue
RpCycle ==
    /\ rp_pc = "loop"
    /\ cycles < MaxCycles
    /\ cycles' = cycles + 1
    /\ cycle_connected' = PyBool(mq_connected)
    /\ rp_pc' = IF mq_connected THEN "publish" ELSE "loop"
    /\ UNCHANGED <<baseVars, besidesReporter, connection_attempts,
                   connect_calls, mq_connected, loop_running, wait_ticks,
                   published, loop_entry, rp_status>>

\* lines 205-229: the status is gathered and published, then the sleep
RpPublish ==
    /\ rp_pc = "publish"
    /\ published' = published + 1
    /\ rp_pc' = "loop"
    /\ UNCHANGED <<baseVars, besidesReporter, connection_attempts,
                   connect_calls, mq_connected, loop_running, wait_ticks,
                   cycles, cycle_connected, loop_entry, rp_status>>

\* lines 231-243: Ctrl+C or an error in the publish loop: loop_stop,
\* disconnect, and the script ends
RpStop ==
    /\ rp_pc \in {"loop", "publish"}
    /\ loop_running' = FALSE
    /\ mq_connected' = FALSE
    /\ rp_pc' = "exited"
    /\ rp_status' = 0
    /\ UNCHANGED <<baseVars, besidesReporter, connection_attempts,
                   connect_calls, wait_ticks, cycles, published,
                   cycle_connected, loop_entry>>

(***************************************************************************)
(* SpecReporter: one run of status_reporter2.py against a broker that may  *)
(* refuse, stay silent, accept late and drop the connection.               *)
(***************************************************************************)
InitReporter ==
    /\ op = "reporter"
    /\ wire = <<>>
    /\ rx = <<>>
    /\ written = <<>>
    /\ reply = <<>>
    /\ elapsed = 0
    /\ EpIdle
    /\ ScIdle
    /\ SendIdle
    /\ LoginIdle
    /\ AppIdle
    /\ FfIdle
    /\ IpIdle
    /\ MuxIdle
    /\ OledIdle
    /\ SvcIdle
    /\ ScanIdle
    /\ rp_pc = "while"
    /\ connection_attempts = 0
    /\ connect_calls = 0
    /\ mq_connected = FALSE
    /\ loop_running = FALSE
    /\ wait_ticks = 0
    /\ cycles = 0
    /\ published = 0
    /\ cycle_connected = "unset"
    /\ loop_entry = "unset"
    /\ rp_status = -1

NextReporter ==
    \/ MqNetwork
    \/ RpAttempt
    \/ RpWait
    \/ RpWaited
    \/ RpLoopStop
    \/ RpCount
    \/ RpWhileExit
    \/ RpCheck
    \/ RpCycle
    \/ RpPublish
    \/ RpStop

SpecReporter == InitReporter /\ [][NextReporter]_vars

\* C17: the reporter calls connect at most 5 times; when the client is not
\* connected after them it exits with status 1 and has published nothing;
\* the publish loop is entered only when connected; in the loop a message
\* is published in a cycle only if the client was connected at the start of
\* that cycle.
C17_ConnectThenPublishWhenConnected ==
    /\ connect_calls <= 5
    /\ (rp_pc = "exited" /\ loop_entry = "unset") => rp_status = 1
    /\ rp_status = 1 => (published = 0 /\ loop_entry = "unset")
    /\ rp_pc \in {"while", "wait", "waited", "stopping", "count", "check"}
          => (published = 0 /\ loop_entry = "unset")
    /\ loop_entry # "False"
    /\ rp_pc = "publish" => cycle_connected = "True"
    /\ published <= cycles
    /\ (cycles > 0 /\ cycle_connected = "False" /\ rp_pc = "loop")
          => published < cycles

\* the fifth connect call succeeded, a first cycle published, the
\* connection dropped and the second cycle published nothing
C17_Witness ==
    /\ rp_pc = "loop"
    /\ connect_calls = 5
    /\ loop_entry = "True"
    /\ cycles = 2
    /\ published = 1
    /\ cycle_connected = "False"

(***************************************************************************)
(* oled_status_display2.py: update_oled_display and on_message             *)
(***************************************************************************)
MaxOledTicks == 3
MaxMessages == 2
TickSeconds == 45
MAX_LINES_ON_OLED == 4
STALE_DATA_THRESHOLD_S == 90

\* the board ids that report, in the order sorted() gives them
BoardIds == <<"200", "luckfox-200", "luckfox-201">>

\* line 109: board_id_full.split('-')
IdParts(board_id_full) ==
    CASE board_id_full = "200" -> <<"200">>
      [] board_id_full = "luckfox-200" -> <<"luckfox", "200">>
      [] board_id_full = "luckfox-201" -> <<"luckfox", "201">>

\* line 110: the last part when there are several and it is a number, else
\* the first three characters of the id
BoardIdShort(board_id_full) ==
    LET id_parts == IdParts(board_id_full)
    IN  IF Len(id_parts) > 1
        THEN id_parts[Len(id_parts)]
        ELSE board_id_full

\* line 113: the test for stale data
IsStale(now, local_rx_timestamp) ==
    (now - local_rx_timestamp) * TickSeconds > STALE_DATA_THRESHOLD_S

\* lines 113-132: the line drawn for a board
DisplayLine(statuses, now, board_id_full) ==
    IF IsStale(now, statuses[board_id_full].timestamp_local_rx)
    THEN <<BoardIdShort(board_id_full), "STALE">>
    ELSE <<BoardIdShort(board_id_full), "T:M:U:">>

\* lines 76-139: what update_oled_display draws: the title, a line for each
\* of the first MAX_LINES_ON_OLED boards in sorted order, and a message
\* when no line was drawn
Drawn(statuses, now) ==
    LET sorted_board_ids ==
            SelectSeq(BoardIds, LAMBDA b : b \in DOMAIN statuses)
        lines_drawn ==
            IF Len(sorted_board_ids) < MAX_LINES_ON_OLED
            THEN Len(sorted_board_ids)
            ELSE MAX_LINES_ON_OLED
        lines == [i \in 1..lines_drawn |->
                     DisplayLine(statuses, now, sorted_board_ids[i])]
        message ==
            IF lines_drawn = 0 /\ Len(sorted_board_ids) > 0
            THEN << <<"All data stale...">> >>
            ELSE IF Len(sorted_board_ids) = 0
                 THEN << <<"Waiting for data...">> >>
                 ELSE <<>>
    IN  << <<"LuckFox Rack Status:">> >> \o lines \o message

\* lines 76-78: nothing is drawn without a display
UpdateOledDisplay(statuses, now) ==
    IF oled_available
    THEN oled_lines' = Drawn(statuses, now)
    ELSE UNCHANGED oled_lines

\* a call of update_oled_display (line 197 is the first one)
OledUpdate ==
    /\ op = "oled"
    /\ UpdateOledDisplay(board_statuses, oled_now)
    /\ UNCHANGED <<baseVars, besidesOled, oled_available, board_statuses,
                   oled_now, received, oled_pc>>

\* the payloads of the messages: text that is no JSON, bytes that are no
\* UTF-8, a JSON list, and status objects without and with a board_id
Payloads ==
    { "status ok", "\\xff", "[1]", "{\"status\": \"ok\"}",
      "{\"status\": \"busy\"}",
      "{\"board_id\": \"luckfox-200\", \"status\": \"ok\"}" }

\* lines 160-162: json.loads(msg.payload.decode()) for these payloads
JsonLoads(payload) ==
    CASE payload = "status ok" -> [exc |-> "JSONDecodeError"]
      [] payload = "\\xff" -> [exc |-> "UnicodeDecodeError"]
      [] payload = "[1]" -> [exc |-> "none", is_dict |-> FALSE]
      [] payload = "{\"status\": \"ok\"}" ->
            [exc |-> "none", is_dict |-> TRUE, value |-> [status |-> "ok"]]
      [] payload = "{\"status\": \"busy\"}" ->
            [exc |-> "none", is_dict |-> TRUE, value |-> [status |-> "busy"]]
      [] payload = "{\"board_id\": \"luckfox-200\", \"status\": \"ok\"}" ->
            [exc |-> "none", is_dict |-> TRUE,
             value |-> [board_id |-> "luckfox-200", status |-> "ok"]]

\* the topics of the subscription luckfox/+/status, split at '/'
Topics == { <<"luckfox", b, "status">> : b \in {"200", "luckfox-201"} }

\* line 163: data.get("board_id", msg.topic.split('/')[1])
BoardIdOf(data, topic) ==
    IF "board_id" \in DOMAIN data THEN data.board_id ELSE topic[2]

\* line 164: data["timestamp_local_rx"] = time.time()
Stamped(data, now) ==
    [k \in DOMAIN data \cup {"timestamp_local_rx"} |->
        IF k = "timestamp_local_rx" THEN now ELSE data[k]]

\* on_message that keeps the status a board id already has
OnMessageKeepFirst ==
    /\ op = "oled"
    /\ oled_pc = "listening"
    /\ Len(received) < MaxMessages
    /\ \E topic \in Topics, payload \in Payloads :
          LET loaded == JsonLoads(payload)
          IN  /\ received' = Append(received, [topic |-> topic, payload |-> payload])
              /\ IF loaded.exc = "none" /\ loaded.is_dict
                 THEN LET board_id == BoardIdOf(loaded.value, topic)
                      IN  /\ board_statuses' =
                                [b \in DOMAIN board_statuses \cup {board_id} |->
                                    IF b \in DOMAIN board_statuses
                                    THEN board_statuses[b]
                                    ELSE Stamped(loaded.value, oled_now)]
                          /\ UpdateOledDisplay(board_statuses', oled_now)
                 ELSE UNCHANGED <<board_statuses, oled_lines>>
    /\ UNCHANGED <<baseVars, besidesOled, oled_available, oled_now, oled_pc>>

\* lines 157-170: on_message: a payload that json.loads turns into a dict
\* is stored under its board id with the local time of receipt, and the
\* display is updated; with any other payload an exception is raised
\* before the store (JSONDecodeError or UnicodeDecodeError in line 162,
\* AttributeError in line 163), caught and reported, and on_message
\* returns
OnMessage ==
    /\ op = "oled"
    /\ oled_pc = "listening"
    /\ Len(received) < MaxMessages
    /\ \E topic \in Topics, payload \in Payloads :
          LET loaded == JsonLoads(payload)
          IN  /\ received' = Append(received, [topic |-> topic, payload |-> payload])
              /\ IF loaded.exc = "none" /\ loaded.is_dict
                 THEN LET board_id == BoardIdOf(loaded.value, topic)
                      IN  /\ board_statuses' =
                                [b \in DOMAIN board_statuses \cup {board_id} |->
                                    IF b = board_id
                                    THEN Stamped(loaded.value, oled_now)
                                    ELSE board_statuses[b]]
                          /\ UpdateOledDisplay(board_statuses', oled_now)
                 ELSE UNCHANGED <<board_statuses, oled_lines>>
    /\ UNCHANGED <<baseVars, besidesOled, oled_available, oled_now, oled_pc>>

\* lines 199-201: KeyboardInterrupt ends loop_forever
OledInterrupt ==
    /\ op = "oled"
    /\ oled_pc = "listening"
    /\ oled_pc' = "stopped"
    /\ UNCHANGED <<baseVars, besidesOled, oled_available, board_statuses,
                   oled_now, oled_lines, received>>

\* time passes
OledClock ==
    /\ op = "oled"
    /\ oled_now < MaxOledTicks
    /\ oled_now' = oled_now + 1
    /\ UNCHANGED <<baseVars, besidesOled, oled_available, board_statuses,
                   oled_lines, received, oled_pc>>

(***************************************************************************)
(* SpecOled: the display manager receives status messages while time       *)
(* passes, and update_oled_display is called at any moment.                *)
(***************************************************************************)
InitOled ==
    /\ op = "oled"
    /\ wire = <<>>
    /\ rx = <<>>
    /\ written = <<>>
    /\ reply = <<>>
    /\ elapsed = 0
    /\ EpIdle
    /\ ScIdle
    /\ SendIdle
    /\ LoginIdle
    /\ AppIdle
    /\ FfIdle
    /\ IpIdle
    /\ MuxIdle
    /\ ReporterIdle
    /\ SvcIdle
    /\ ScanIdle
    /\ oled_available \in BOOLEAN
    /\ board_statuses = <<>>
    /\ oled_now = 0
    /\ oled_lines = <<>>
    /\ received = <<>>
    /\ oled_pc = "listening"

NextOled ==
    \/ OledUpdate
    \/ OnMessage
    \/ OledClock
    \/ OledInterrupt

SpecOled == InitOled /\ [][NextOled]_vars

\* the display shows what update_oled_display draws for the boards and the
\* time of this state
OledShown == oled_available /\ oled_lines = Drawn(board_statuses, oled_now)

AllStale ==
    /\ DOMAIN board_statuses # {}
    /\ \A b \in DOMAIN board_statuses :
          IsStale(oled_now, board_statuses[b].timestamp_local_rx)

\* C18: after update_oled_display, when at least one board is known and
\* the data of every known board is stale, the display shows
\* 'All data stale...'; when no board is known it shows
\* 'Waiting for data...'.
C18_StaleAndWaitingMessages ==
    OledShown =>
        /\ AllStale =>
              \E i \in 1..Len(oled_lines) :
                 oled_lines[i] = <<"All data stale...">>
        /\ DOMAIN board_statuses = {} =>
              \E i \in 1..Len(oled_lines) :
                 oled_lines[i] = <<"Waiting for data...">>

\* a message whose payload is valid JSON for a status: an object
IsStatus(msg) ==
    JsonLoads(msg.payload).exc = "none" /\ JsonLoads(msg.payload).is_dict

\* the board id a status message is for: its board_id, or the one of its topic
StatusId(msg) ==
    LET status == JsonLoads(msg.payload).value
    IN  IF "board_id" \in DOMAIN status THEN status.board_id ELSE msg.topic[2]

\* the places in received of the status messages for a board id
StatusesFor(board_id) ==
    {i \in 1..Len(received) :
        IsStatus(received[i]) /\ StatusId(received[i]) = board_id}

\* a stored status without the time of receipt the listener added
AsReceived(data) ==
    [k \in DOMAIN data \ {"timestamp_local_rx"} |-> data[k]]

\* board_statuses holds, for each board id, the last status received for it
HoldsLatestStatus ==
    /\ DOMAIN board_statuses \subseteq Elems(BoardIds)
    /\ \A board_id \in Elems(BoardIds) :
          IF StatusesFor(board_id) = {}
          THEN board_id \notin DOMAIN board_statuses
          ELSE /\ board_id \in DOMAIN board_statuses
               /\ LET latest == CHOOSE i \in StatusesFor(board_id) :
                                   \A j \in StatusesFor(board_id) : j <= i
                  IN  AsReceived(board_statuses[board_id])
                         = JsonLoads(received[latest].payload).value

\* a message that is no valid JSON changes nothing and the listener goes on
NonJsonIgnored ==
    (/\ received' # received
     /\ JsonLoads(received'[Len(received')].payload).exc # "none") =>
        /\ board_statuses' = board_statuses
        /\ oled_pc' = "listening"

\* C23: after any sequence of MQTT messages board_statuses holds for each
\* board id the most recently received valid JSON status for that id (with
\* the time of receipt added); a message whose payload is not valid JSON
\* leaves board_statuses unchanged and does not stop the listener.
C23_LatestValidStatusPerBoard ==
    []HoldsLatestStatus /\ [][NonJsonIgnored]_vars

\* a status for board 200 was received, then a payload that is no JSON on
\* the same topic: the status is still held and the listener is listening
C23_Witness ==
    /\ Len(received) = 2
    /\ received[1] = [topic |-> <<"luckfox", "200", "status">>,
                      payload |-> "{\"status\": \"ok\"}"]
    /\ received[2] = [topic |-> <<"luckfox", "200", "status">>,
                      payload |-> "status ok"]
    /\ DOMAIN board_statuses = {"200"}
    /\ board_statuses["200"].status = "ok"
    /\ oled_pc = "listening"

(***************************************************************************)
(* luckfox_b_camera_ops.manage_target_services                             *)
(***************************************************************************)
MaxServices == 2

\* lines 17-20: command_template.format(service=service_name)
ServiceCommand(action, service_name) ==
    IF action = "stop"
    THEN <<"killall ", service_name, " || true">>
    ELSE <<service_name, " &">>

\* what the target sends after a service command: nothing, a prompt, or a
\* prompt with more text behind it
ServiceReplies == { <<>>, <<"#", " ">>, <<"#", " ", "x", "y">> }

\* lines 16-24: the command template is chosen; an unsupported action
\* returns False
SvcStart ==
    /\ svc_pc = "start"
    /\ IF svc_action \in {"stop", "start"}
       THEN /\ all_successful' = TRUE
            /\ svc_pc' = "next"
            /\ UNCHANGED svc_ret
       ELSE /\ svc_ret' = "False"
            /\ svc_pc' = "done"
            /\ UNCHANGED all_successful
    /\ UNCHANGED <<baseVars, besidesSvc, svc_action, svc_services, svc_idx,
                   svc_outputs>>

\* lines 25-30 and 37: the command of the next service goes out; after the
\* last service all_successful is returned
SvcSend ==
    /\ svc_pc = "next"
    /\ IF svc_idx < Len(svc_services)
       THEN /\ SendCommand(ServiceCommand(svc_action,
                                          svc_services[svc_idx + 1]),
                           SHELL_PROMPT_STRS, ServiceReplies)
            /\ svc_pc' = "wait"
            /\ UNCHANGED svc_ret
       ELSE /\ svc_ret' = PyBool(all_successful)
            /\ svc_pc' = "done"
            /\ UNCHANGED <<scVars, reply>>
    /\ UNCHANGED <<op, wire, rx, written, elapsed, epVars, sendVars,
                   callerVars, besidesSvc, svc_action, svc_services,
                   svc_idx, all_successful, svc_outputs>>

\* the function returns False as soon as an output is None
SvcAfterStopAtFailure ==
    /\ svc_pc = "wait"
    /\ sc_pc \in {"done", "raised"}
    /\ IF sc_pc = "raised"
       THEN /\ svc_pc' = "raised"
            /\ UNCHANGED <<svc_idx, all_successful, svc_outputs, svc_ret>>
       ELSE /\ svc_outputs' =
                  Append(svc_outputs,
                         [none |-> sc_ret = None,
                          seen |-> AnyPromptIn(sc_prompts, sc_buf)])
            /\ svc_idx' = svc_idx + 1
            /\ IF sc_ret = None
               THEN /\ all_successful' = FALSE
                    /\ svc_ret' = "False"
                    /\ svc_pc' = "done"
               ELSE /\ svc_pc' = "next"
                    /\ UNCHANGED <<all_successful, svc_ret>>
    /\ UNCHANGED <<baseVars, besidesSvc, svc_action, svc_services>>

\* lines 31-36: the output is back: None clears all_successful, and the
\* loop goes on; an exception of the write leaves the function
SvcAfter ==
    /\ svc_pc = "wait"
    /\ sc_pc \in {"done", "raised"}
    /\ IF sc_pc = "raised"
       THEN /\ svc_pc' = "raised"
            /\ UNCHANGED <<svc_idx, all_successful, svc_outputs>>
       ELSE /\ svc_outputs' =
                  Append(svc_outputs,
                         [none |-> sc_ret = None,
                          seen |-> AnyPromptIn(sc_prompts, sc_buf)])
            /\ all_successful' = (all_successful /\ sc_ret # None)
            /\ svc_idx' = svc_idx + 1
            /\ svc_pc' = "next"
    /\ UNCHANGED <<baseVars, besidesSvc, svc_action, svc_services, svc_ret>>

(***************************************************************************)
(* SpecServices: one call of manage_target_services on a logged-in port.   *)
(***************************************************************************)
ServiceNames == {"rkipc", "httpd"}

InitServices ==
    /\ op = "manage_target_services"
    /\ wire = <<>>
    /\ rx = <<>>
    /\ written = <<>>
    /\ reply = <<>>
    /\ elapsed = 0
    /\ EpIdle
    /\ ScIdle
    /\ SendIdle
    /\ LoginIdle
    /\ AppIdle
    /\ FfIdle
    /\ IpIdle
    /\ MuxIdle
    /\ ReporterIdle
    /\ OledIdle
    /\ ScanIdle
    /\ svc_pc = "start"
    /\ svc_action \in {"stop", "start", "restart"}
    /\ svc_services \in BoundedSeq(ServiceNames, MaxServices)
    /\ svc_idx = 0
    /\ all_successful = TRUE
    /\ svc_outputs = <<>>
    /\ svc_ret = "unset"

NextServices ==
    \/ SvcStart
    \/ SvcSend
    \/ SvcAfter
    \/ ScWrite
    \/ ScIter
    \/ ScTimeout
    \/ ScFinish
    \/ Deliver
    \/ Tick

SpecServices == InitServices /\ [][NextServices]_vars

\* the command lines of the first n services, in list order
ServiceLines(n) ==
    [i \in 1..n |-> CommandBytes(ServiceCommand(svc_action, svc_services[i]))]

\* C19: when manage_target_services returns, for 'stop' and 'start' it has
\* written exactly one command per service, in list order, also after an
\* output of None; it returns True exactly when no output was None, and an
\* output is not None only when a shell prompt was in what the command
\* read before its timeout; for any other action it returns False and has
\* written nothing.
C19_OneCommandPerService ==
    /\ svc_pc \in {"next", "wait", "raised", "done"} /\ svc_ret = "unset" =>
          \E n \in 0..Len(svc_services) : written = ServiceLines(n)
    /\ svc_pc = "done" =>
          IF svc_action \in {"stop", "start"}
          THEN /\ written = ServiceLines(Len(svc_services))
               /\ Len(svc_outputs) = Len(svc_services)
               /\ svc_ret = "True" <=>
                     \A i \in 1..Len(svc_outputs) : ~svc_outputs[i].none
               /\ \A i \in 1..Len(svc_outputs) :
                     /\ ~svc_outputs[i].none => svc_outputs[i].seen
                     /\ ~svc_outputs[i].seen => svc_outputs[i].none
          ELSE /\ svc_ret = "False"
               /\ written = <<>>

\* two services: the first command saw no prompt, the second was sent all
\* the same and saw one, and False was returned
C19_Witness ==
    /\ svc_pc = "done"
    /\ svc_action = "stop"
    /\ Len(svc_services) = 2
    /\ Len(written) = 2
    /\ svc_outputs[1].none
    /\ ~svc_outputs[2].none
    /\ svc_ret = "False"

(***************************************************************************)
(* SpecFallback: one call of send_command_and_get_output against a target  *)
(* whose answer is put together from an echo, blanks and prompts,          *)
(* so that prompts also stand in the middle of what is read.               *)
(***************************************************************************)
MaxPieces == 3

FallbackPieces ==
    { <<" ">>, <<"l", "s", "\r", "\n">>, <<"#", " ">>, SHELL_PROMPT_STRS[1] }

\* the long prompt stands in an answer at most once
FallbackStreams ==
    { Join(ps) :
        ps \in { qs \in BoundedSeq(FallbackPieces, MaxPieces) :
                   Cardinality({i \in 1..Len(qs) :
                                   qs[i] = SHELL_PROMPT_STRS[1]}) <= 1 } }

InitFallback ==
    /\ op = "fallback"
    /\ OtherIdle
    /\ wire = <<>>
    /\ rx = <<>>
    /\ written = <<>>
    /\ elapsed = 0
    /\ EpIdle
    /\ SendIdle
    /\ LoginIdle
    /\ AppIdle
    /\ sc_pc = "start"
    /\ sc_cmd = <<"l", "s">>
    /\ sc_prompts = SHELL_PROMPT_STRS
    /\ sc_buf = <<>>
    /\ sc_found = NotFound
    /\ sc_ret = None
    /\ reply \in FallbackStreams

NextFallback ==
    \/ Deliver
    \/ Tick
    \/ ScWrite
    \/ ScIter
    \/ ScTimeout
    \/ ScFinish

SpecFallback == InitFallback /\ [][NextFallback]_vars

\* the 0-based indexes of the buffer at which a configured prompt starts
PromptStarts ==
    {i \in 0..Len(sc_buf) :
        \E k \in 1..Len(sc_prompts) :
           /\ i + Len(sc_prompts[k]) <= Len(sc_buf)
           /\ SubSeq(sc_buf, i + 1, i + Len(sc_prompts[k])) = sc_prompts[k]}

LatestStart == CHOOSE i \in PromptStarts : \A j \in PromptStarts : j <= i

\* the bytes before the latest prompt occurrence, without the echoed line
BeforeLatestWithoutEcho ==
    LET before == SubSeq(sc_buf, 1, LatestStart)
        lines == SplitLines(before)
    IN  IF lines # <<>> /\ Strip(lines[1]) = Strip(CommandBytes(sc_cmd))
        THEN Join(Tail(lines))
        ELSE before

\* the read loop was left by its timeout
TimedOut == sc_pc = "done" /\ elapsed >= TimeoutTicks

\* C20 as stated: after a timeout of the read loop the fallback search cuts
\* the buffer at the latest start of a configured prompt, the returned
\* output is exactly the bytes before it with the echo removed, and None
\* is returned only if no configured prompt occurs in the buffer.
C20_ExactlyBytesBeforeLatest ==
    TimedOut =>
        IF PromptStarts = {}
        THEN sc_ret = None
        ELSE /\ sc_found.index = LatestStart
             /\ sc_ret = Decode(BeforeLatestWithoutEcho)

\* C20, amended: after a timeout of the read loop the fallback search cuts
\* the buffer at the latest start of a configured prompt, the returned
\* output is the bytes before it with the echo removed, decoded and
\* stripped of leading and trailing whitespace, and None is returned only
\* if no configured prompt occurs in the buffer.
C20_StrippedBytesBeforeLatest ==
    TimedOut =>
        IF PromptStarts = {}
        THEN sc_ret = None
        ELSE /\ sc_found.index = LatestStart
             /\ sc_ret = Strip(Decode(BeforeLatestWithoutEcho))

\* a timeout with two prompt occurrences in the buffer, the later one a
\* '# ' that is no part of the earlier one, and more bytes behind it
C20_Witness ==
    /\ TimedOut
    /\ Cardinality(PromptStarts) >= 2
    /\ sc_found.found
    /\ sc_found.index = LatestStart
    /\ LatestStart + 2 < Len(sc_buf)
    /\ sc_ret # None
    /\ sc_ret # <<>>

(***************************************************************************)
(* 74HC4051array.py: the motion-detection loop.  Voltages, differences     *)
(* and positions are the floats the script computes.                       *)
(***************************************************************************)
MaxBlob == 2

\* lines 16, 22 and 24: 1.8, 0.1 and 0.5 as floats
VREF == FDiv(FromInt(ADC_VREF), FromInt(1000))
DIFFERENCE_THRESHOLD == FDiv(FromInt(1), FromInt(10))
POSITION_TOLERANCE == FDiv(FromInt(1), FromInt(2))

\* math.nan and a number, as entries of current_diffs
NanDiff == [nan |-> TRUE, v |-> FZero]
Diff(v) == [nan |-> FALSE, v |-> v]

\* lines 123-145: read_adc_voltage with the voltage as the float
\* (raw_value / ADC_MAX_VALUE) * ADC_VREF
read_adc_voltage(raw_file_text) ==
    IF raw_file_text.is_none THEN [is_none |-> TRUE, v |-> FZero]
    ELSE LET raw_value == PyInt(Strip(raw_file_text.text))
         IN  IF raw_value.exc # "none" THEN [is_none |-> TRUE, v |-> FZero]
             ELSE [is_none |-> FALSE,
                   v |-> FMul(FDiv(FromInt(raw_value.value),
                                   FromInt(ADC_MAX_VALUE)), VREF)]

\* what the ADC file holds for a photoresistor in the dark and for a lit one
DarkText == Text(<<"0", "\n">>)
LitText == Text(<<"5", "1", "2", "\n">>)

\* read_adc_voltage for each text a scan may meet
ScanVoltage ==
    [t \in {NoText, DarkText, LitText} |-> read_adc_voltage(t)]

\* the background a calibration leaves when every channel read text t
BackgroundOf(t) == [k \in 1..NUM_CHANNELS |-> ScanVoltage[t].v]
ScanBackgrounds == { BackgroundOf(t) : t \in {DarkText, LitText} }

\* what can go wrong in a scan: nothing, the ADC read of one channel, or
\* the n+1st write of the selection of one channel (the pins a failed
\* selection of an earlier channel leaves are written again for the next
\* channel, so n is varied for the last channel only)
ScanFaults ==
    { [kind |-> "none", ch |-> 0, n |-> 0] }
    \cup { [kind |-> "adc", ch |-> c, n |-> 0] : c \in 0..(NUM_CHANNELS - 1) }
    \cup { [kind |-> "select", ch |-> c, n |-> 0] : c \in 0..(NUM_CHANNELS - 2) }
    \cup { [kind |-> "select", ch |-> NUM_CHANNELS - 1, n |-> n] :
             n \in 0..(Len(SELECTOR_PINS) - 1) }

\* the writes of the selection of channel ch that succeed in a scan
WritesOf(ch, fault) ==
    IF fault.kind = "select" /\ fault.ch = ch
    THEN fault.n ELSE Len(SELECTOR_PINS)

\* lines 241-244 and 91-120: the value files after the selections of a
\* scan: a pin holds the bit of the last channel whose selection wrote it
ValuesAfterScan(values, fault) ==
    [p \in Elems(SELECTOR_PINS) |->
        LET k == CHOOSE j \in 1..Len(SELECTOR_PINS) : SELECTOR_PINS[j] = p
            writers == {ch \in 0..(NUM_CHANNELS - 1) : WritesOf(ch, fault) >= k}
        IN  IF writers = {} THEN values[p]
            ELSE Bit(CHOOSE ch \in writers : \A o \in writers : o <= ch,
                     k - 1)]

\* lines 241-257: current_diffs[ch] of a scan: the difference of the ADC
\* voltage to the background, nan when the selection or the read failed
ScanDiff(ch, background, raws, fault) ==
    LET voltage == IF fault.kind = "adc" /\ fault.ch = ch
                   THEN ScanVoltage[NoText]
                   ELSE ScanVoltage[raws[ch + 1]]
    IN  IF WritesOf(ch, fault) = Len(SELECTOR_PINS) /\ ~voltage.is_none
        THEN Diff(FSub(voltage.v, background[ch + 1]))
        ELSE NanDiff

\* lines 259-272: weighted_sum and total_abs_diff over the channels i..7
RECURSIVE CenterOfMass(_, _, _, _)
CenterOfMass(diffs, i, weighted_sum, total_abs_diff) ==
    IF i >= NUM_CHANNELS THEN <<weighted_sum, total_abs_diff>>
    ELSE LET abs_diff == FAbs(diffs[i + 1].v)
         IN  IF ~diffs[i + 1].nan /\ FLess(DIFFERENCE_THRESHOLD, abs_diff)
             THEN CenterOfMass(diffs, i + 1,
                               FAdd(weighted_sum, FMul(FromInt(i), abs_diff)),
                               FAdd(total_abs_diff, abs_diff))
             ELSE CenterOfMass(diffs, i + 1, weighted_sum, total_abs_diff)

\* lines 275-278: current_position of a scan with these differences
Position(diffs) ==
    Strict1(LAMBDA sums : IF FLess(FZero, sums[2])
                          THEN FDiv(sums[1], sums[2]) ELSE NoPosition,
            CenterOfMass(diffs, 0, FZero, FZero))

\* lines 278-291: the direction of a scan that gave a position, with
\* above for previous_position + POSITION_TOLERANCE and below for
\* previous_position - POSITION_TOLERANCE
Direction(position, above, below, was_valid) ==
    IF ~was_valid THEN "---"
    ELSE IF FLess(above, position) THEN "RIGHT >>"
    ELSE IF FLess(position, below) THEN "<< LEFT"
    ELSE "---"

\* the raw ADC texts of a scan over a background of level t: up to MaxBlob
\* adjacent channels read the other level, the rest read t
ScanRaws(t) ==
    { [c \in 1..NUM_CHANNELS |->
          IF lo <= c /\ c < lo + w
          THEN (IF t = DarkText THEN LitText ELSE DarkText)
          ELSE t] :
        lo \in 1..NUM_CHANNELS, w \in 0..MaxBlob }

\* lines 241-278: the differences and the position of one scan
ScanOutcome(background, raws, fault) ==
    LET diffs == [c \in 1..NUM_CHANNELS |->
                     ScanDiff(c - 1, background, raws, fault)]
    IN  [fault |-> fault, diffs |-> diffs, position |-> Position(diffs)]

\* the scans that can follow a calibration, by its background
ScanOutcomes ==
    [background \in ScanBackgrounds |->
        UNION { { ScanOutcome(background, raws, fault) :
                    raws \in ScanRaws(t), fault \in ScanFaults } :
                t \in {u \in {DarkText, LitText} :
                          BackgroundOf(u) = background} }]

\* lines 236-311: one pass of the motion-detection loop
ScanCycle ==
    /\ mo_pc = "scan"
    /\ \E above \in {FAdd(previous_position, POSITION_TOLERANCE)},
          below \in {FSub(previous_position, POSITION_TOLERANCE)},
          scan \in ScanOutcomes[background_voltages] :
          /\ gpio_value' = ValuesAfterScan(gpio_value, scan.fault)
          /\ gpio_writes' =
                [k \in 1..WritesOf(NUM_CHANNELS - 1, scan.fault) |->
                    <<SELECTOR_PINS[k], Bit(NUM_CHANNELS - 1, k - 1)>>]
          /\ current_diffs' = scan.diffs
          /\ preceding_scan' = current_position
          /\ current_position' = scan.position
          /\ IF scan.position # NoPosition
             THEN /\ direction' = Direction(scan.position, above, below,
                                            previous_position_was_valid)
                  /\ previous_position' = scan.position
                  /\ previous_position_was_valid' = TRUE
             ELSE /\ direction' = "---"
                  /\ previous_position_was_valid' = FALSE
                  /\ UNCHANGED previous_position
    /\ UNCHANGED <<baseVars, besidesScan, gpio_exported, script_exported,
                   unexport_tried, selVars, calVars, motionVars>>

(***************************************************************************)
(* SpecScan: the motion-detection loop after a successful setup and        *)
(* calibration, over a dark or a lit background.                           *)
(***************************************************************************)
InitScan ==
    /\ op = "scan"
    /\ wire = <<>>
    /\ rx = <<>>
    /\ written = <<>>
    /\ reply = <<>>
    /\ elapsed = 0
    /\ EpIdle
    /\ ScIdle
    /\ SendIdle
    /\ LoginIdle
    /\ AppIdle
    /\ FfIdle
    /\ IpIdle
    /\ ReporterIdle
    /\ OledIdle
    /\ SvcIdle
    /\ SelIdle
    /\ gpio_exported = Elems(SELECTOR_PINS)
    /\ gpio_value = [p \in Elems(SELECTOR_PINS) |-> 1]
    /\ gpio_writes = <<>>
    /\ script_exported = Elems(SELECTOR_PINS)
    /\ unexport_tried = {}
    /\ cal_pc = "done"
    /\ cal_ch = NUM_CHANNELS
    /\ \E background \in ScanBackgrounds :
          /\ temp_readings = background
          /\ background_voltages = background
    /\ successful_reads = NUM_CHANNELS
    /\ cal_ret = "True"
    /\ mo_pc = "scan"
    /\ mo_pin = Len(SELECTOR_PINS)
    /\ gpios_successfully_configured = TRUE
    /\ scan_ch = 0
    /\ current_diffs = [c \in 1..NUM_CHANNELS |-> Diff(FZero)]
    /\ current_position = NoPosition
    /\ direction = "---"
    /\ previous_position = NoPosition
    /\ previous_position_was_valid = FALSE
    /\ preceding_scan = NoPosition

NextScan == ScanCycle

SpecScan == InitScan /\ [][NextScan]_vars

\* the channels of the last scan with a significant change
Significant ==
    {c \in 0..(NUM_CHANNELS - 1) :
        /\ ~current_diffs[c + 1].nan
        /\ FLess(DIFFERENCE_THRESHOLD, FAbs(current_diffs[c + 1].v))}

\* a position is valid when it is not -1.0
ValidPosition(p) == p # NoPosition

\* p > q + tol for floats that are not negative, without rounding
ExceedsBy(p, q, tol) ==
    LET e == CHOOSE k \in {x.e : x \in {p, q, tol}} :
                 \A x \in {p, q, tol} : k <= x.e
        Scaled(x) == IF x.m = BZero THEN BZero ELSE BShl(x.m, x.e - e)
    IN  BCmp(Scaled(p), BAdd(Scaled(q), Scaled(tol))) > 0

\* a direction is reported only between two valid positions more than
\* POSITION_TOLERANCE apart, RIGHT for the higher one, and never right
\* after a scan without a position; a scan has a position exactly when a
\* channel changed significantly
DirectionOnlyBetweenValidScans ==
    /\ direction # "---" =>
          /\ ValidPosition(current_position)
          /\ ValidPosition(preceding_scan)
          /\ \/ ExceedsBy(current_position, preceding_scan, POSITION_TOLERANCE)
             \/ ExceedsBy(preceding_scan, current_position, POSITION_TOLERANCE)
          /\ direction = "RIGHT >>" <=>
                ExceedsBy(current_position, preceding_scan, POSITION_TOLERANCE)
    /\ (ValidPosition(current_position) /\ ~ValidPosition(preceding_scan)) =>
          direction = "---"
    /\ ValidPosition(current_position) <=> Significant # {}

\* C22: a direction is reported in a scan only if that scan and the scan
\* immediately before it both gave a valid center-of-mass position and the
\* two differ by more than POSITION_TOLERANCE; a scan with a significant
\* change that follows a scan without one reports no direction; and every
\* valid position lies between 0 and 7 inclusive.
C22_DirectionNeedsTwoValidScans ==
    /\ DirectionOnlyBetweenValidScans
    /\ ValidPosition(current_position) =>
          /\ ~FLess(current_position, FZero)
          /\ ~FLess(FromInt(NUM_CHANNELS - 1), current_position)

====
